---------------------------- MODULE Spec2Model ----------------------------
(***************************************************************************)
(* A model of the orchestration core of OpenManus: the agent state machine *)
(* (app/agent/base.py, react.py, toolcall.py), the tool dispatcher         *)
(* (app/tool/tool_collection.py), the conversation memory (app/schema.py)  *)
(* and the plan store with its text rendering (app/tool/planning.py,       *)
(* app/agent/planning.py, app/flow/planning.py).                           *)
(*                                                                         *)
(* Texts are modelled as sequences of tokens: <<>> is the empty text (and  *)
(* None, which the code treats alike wherever it tests a text), and        *)
(* "x in text" is token membership.                                        *)
(***************************************************************************)
EXTENDS Integers, Sequences, FiniteSets, TLC

(***************************************************************************)
(* Bounds of the model.                                                    *)
(***************************************************************************)
\* the largest step budget (BaseAgent.max_steps) an agent is built with
MaxStepBudget == 2
\* Memory.max_messages of the modelled agent (100 by default in the code)
MaxMessages == 4
\* answers (responses or failures) the backend gives, per behaviour
MaxThinks == 2
\* tool invocations the backend proposes, per behaviour
MaxProposed == 2
\* the longest list of steps a plan is created or updated with
MaxPlanSteps == 2
\* the largest input-token count of one reasoning call
MaxCallTokens == 2
\* the largest configured input-token budget (LLM.max_input_tokens)
MaxBudget == 3
\* reasoning calls are made while the running total is below this
MaxTotalTokens == 4

(***************************************************************************)
(* Program constants.                                                      *)
(***************************************************************************)
duplicate_threshold == 2
\* the attempt cap of the retry decorator of LLM.ask and LLM.ask_tool
stop_after_attempt == 6

AgentState == {"IDLE", "RUNNING", "FINISHED", "ERROR"}
ToolChoice == {"none", "auto", "required"}

\* the fixed corrective instruction of _handle_stuck_state
stuck_prompt == "stuck_prompt"
\* the agent's configured next-step prompt (NEXT_STEP_PROMPT)
NEXT_STEP_PROMPT == <<"next_step">>
\* ToolCallAgent.special_tool_names as the agents of the repository have it
special_tool_names == {"terminate"}
\* the names of ToolCollection.tool_map (SWEAgent: Bash and Terminate)
tool_map == {"bash", "terminate"}

VARIABLES
    \* ---- the agent (BaseAgent / ToolCallAgent fields)
    state,              \* BaseAgent.state
    current_step,       \* BaseAgent.current_step
    max_steps,          \* BaseAgent.max_steps (fixed at construction)
    tool_choices,       \* ToolCallAgent.tool_choices (fixed at construction)
    special_tools,      \* ToolCallAgent.special_tool_names (fixed at construction)
    next_step_prompt,   \* BaseAgent.next_step_prompt, a text
    memory,             \* BaseAgent.memory.messages
    tool_calls,         \* ToolCallAgent.tool_calls
    \* ---- the position of the (single) run() in flight
    pc,                 \* "idle" | "think" (awaiting the backend) | "act" (awaiting a tool)
    previous_state,     \* state_context's local previous_state
    act_idx,            \* act()'s position in tool_calls
    results,            \* run()'s results list: step numbers, 0 for the termination notice
    \* ---- what the callers observe
    run_outcome,        \* how the latest run() call ended
    think_ret,          \* what the latest think() returned
    dispatched,         \* ids handed to execute_tool by the act() in flight or just ended
    proposed,           \* the latest response's tool-call ids, in proposal order
    thinks,             \* answers the backend has given so far
    run_error,          \* "RuntimeError" right after a run() call failed the precondition
    last_execute,       \* how the latest ToolCollection.execute call ended
    issued,             \* tool-call ids the backend has issued so far
    clean,              \* no run of this agent met a terminating tool or a failure
    stuck_ret,          \* what the latest is_stuck() call returned
    \* ---- the plan store (PlanningTool fields) and its callers
    plans,              \* PlanningTool.plans
    current_plan_id,    \* PlanningTool._current_plan_id
    plan_call_raised,   \* whether the latest plan-tool command raised ToolError
    flow_pc,            \* PlanningFlow.execute: "create" | "scan" (about to scan) |
                        \* "start" (step selected) | "step" (executor running) |
                        \* "finalize" | "summary" (summary run in flight) | "done"
    flow_result,        \* PlanningFlow.execute: what it has added to its result
    flow_step_index,    \* PlanningFlow.current_step_index
    agent_step_index,   \* PlanningAgent.current_step_index
    \* ---- the reasoning client (LLM fields) and its call in flight
    total_input_tokens, \* LLM.total_input_tokens
    max_input_tokens,   \* LLM.max_input_tokens (fixed at construction), optional
    llm_pc,             \* "idle" | "attempt" (an attempt is due) | "sent" (awaiting the backend)
    llm_call,           \* the call in flight: its kind, its estimated input tokens
                        \* and the running total when it was made
    attempt_number,     \* the attempt the decorator is at
    llm_sent,           \* requests the call in flight has sent to the backend
    llm_outcome,        \* how the latest call ended
    llm_cause,          \* the exception of the latest failed attempt
    \* ---- the executor selection of a PlanningFlow
    agents,             \* BaseFlow.agents: the registered keys, in dictionary order
    primary_agent_key,  \* BaseFlow.primary_agent_key
    executor_keys,      \* PlanningFlow.executor_keys
    step_text,          \* the text of the step the scan selected
    executor,           \* the agent get_executor returned, by its key; optional
    \* ---- the callers that share one reasoning client
    callers,            \* per caller: its call in flight on the shared client
    \* ---- the tools that wrap a session, and the dispatches to them
    dispatches,         \* per dispatch: the tool it went to and where it stands
    lock,               \* per tool with a lock field: the dispatch holding it; optional
    bash_session,       \* Bash._session: the dispatch that created it; optional
    current_path,       \* Terminal.current_path
    \* ---- the PlanningAgent's tracking of its tool calls
    step_execution_tracker, \* PlanningAgent.step_execution_tracker, as a set of records
    planner_calls,      \* PlanningAgent.tool_calls
    planner_pc,         \* the planner's run: "think" | "act" | "done"
    planner_thinks      \* the think() calls the planner has made

agentVars == <<state, current_step, max_steps, tool_choices, next_step_prompt,
               memory, tool_calls, pc, previous_state, act_idx, results,
               run_outcome, think_ret, dispatched, proposed, thinks, run_error,
               last_execute, issued, clean, special_tools>>

planVars == <<plans, current_plan_id, plan_call_raised, flow_pc, flow_step_index,
              agent_step_index, flow_result>>

llmVars == <<total_input_tokens, max_input_tokens, llm_pc, llm_call, attempt_number,
             llm_sent, llm_outcome, llm_cause>>

selectVars == <<agents, primary_agent_key, executor_keys, step_text, executor>>

\* the variables of the parts that stand beside the agent, the plan store
\* and the reasoning client
toolVars == <<dispatches, lock, bash_session, current_path>>

plannerVars == <<step_execution_tracker, planner_calls, planner_pc, planner_thinks>>

restVars == <<selectVars, callers, toolVars, plannerVars>>

vars == <<agentVars, stuck_ret, planVars, llmVars, restVars>>

(***************************************************************************)
(* Messages (app/schema.py).                                               *)
(***************************************************************************)
NoText == <<>>

Message(role, content, calls, name, tool_call_id) ==
    [role |-> role, content |-> content, tool_calls |-> calls,
     name |-> name, tool_call_id |-> tool_call_id]

user_message(content) == Message("user", content, <<>>, "", 0)

assistant_message(content) == Message("assistant", content, <<>>, "", 0)

tool_message(content, name, tool_call_id) ==
    Message("tool", content, <<>>, name, tool_call_id)

from_tool_calls(content, calls) == Message("assistant", content, calls, "", 0)

\* Memory.add_message: append, then keep the newest max_messages
add_message(mem, m) ==
    LET a == Append(mem, m)
    IN  IF Len(a) > MaxMessages
        THEN SubSeq(a, Len(a) - MaxMessages + 1, Len(a))
        ELSE a


(***************************************************************************)
(* Tool calls and the tools' own behaviour.                                *)
(***************************************************************************)
ToolCall(id, name, arguments) == [id |-> id, name |-> name, arguments |-> arguments]

\* json.loads of an argument payload: the kind of value, or a JSONDecodeError
json_loads(s) ==
    LET value(error, dict, status, command) ==
            [error |-> error, dict |-> dict, status |-> status, command |-> command]
    IN  CASE s = "{status:success}" -> value(FALSE, TRUE, TRUE, FALSE)
          [] s = "{command:ls}"     -> value(FALSE, TRUE, FALSE, TRUE)
          [] s = "{}"               -> value(FALSE, TRUE, FALSE, FALSE)
          [] s = "[1]"              -> value(FALSE, FALSE, FALSE, FALSE)
          [] OTHER                  -> value(TRUE, FALSE, FALSE, FALSE)

\* what a tool's own execute() can do with a dict of arguments: return a
\* non-empty result, return an empty (falsy) result, raise ToolError, or
\* raise another exception
ToolBehaviours == {"output", "empty", "ToolError", "Exception"}

ToolResult(output, error) == [output |-> output, error |-> error]

\* how a call ends: a returned result, or a raised exception of kind exc
Returned(result) == [raised |-> FALSE, exc |-> "", result |-> result]

Raised(exc) == [raised |-> TRUE, exc |-> exc, result |-> ToolResult(NoText, NoText)]

\* Terminate.execute: the status is required
Terminate_execute(args) ==
    IF ~args.status THEN Raised("ValueError")
    ELSE Returned(ToolResult(<<"terminated">>, NoText))

\* BaseTool.__call__(**tool_input) on a tool of the registry: Terminate as
\* coded; Bash needs a command, and then does what its shell session does
\* this time
tool_call(name, args, behaviour) ==
    IF ~args.dict THEN Raised("TypeError")
    ELSE IF name = "terminate" THEN Terminate_execute(args)
    ELSE IF ~args.command THEN Raised("ToolError")
    ELSE CASE behaviour = "output"    -> Returned(ToolResult(<<"out">>, NoText))
           [] behaviour = "empty"     -> Returned(ToolResult(NoText, NoText))
           [] behaviour = "ToolError" -> Raised("ToolError")
           [] OTHER                   -> Raised("Exception")

\* ToolCollection.execute(name, tool_input): of the exceptions of the tool
\* call, ToolError alone is caught and returned as a ToolFailure
ToolCollection_execute(name, args, behaviour) ==
    IF name \notin tool_map
    THEN Returned(ToolResult(NoText, <<"invalid_tool", name>>))
    ELSE LET o == tool_call(name, args, behaviour)
         IN  IF o.raised /\ o.exc = "ToolError"
             THEN Returned(ToolResult(NoText, <<"tool_error">>))
             ELSE o

\* ToolResult.__bool__
Truthy(result) == result.output # NoText \/ result.error # NoText

\* ToolResult.__str__
Str(result) == IF result.error # NoText THEN <<"error">> \o result.error ELSE result.output

\* ToolCallAgent._is_special_tool
is_special_tool(name) == name \in special_tools

\* ToolCallAgent._should_finish_execution
should_finish_execution(name, result) == TRUE

\* the try block of ToolCallAgent.execute_tool: parse, dispatch, format,
\* handle a special tool
execute_tool_try(name, arguments, behaviour) ==
    LET parsed == json_loads(IF arguments = "" THEN "{}" ELSE arguments)
        r == ToolCollection_execute(name, parsed, behaviour)
    IN  IF parsed.error THEN [raised |-> TRUE, exc |-> "JSONDecodeError",
                              observation |-> NoText, finished |-> FALSE]
        ELSE IF r.raised THEN [raised |-> TRUE, exc |-> r.exc,
                               observation |-> NoText, finished |-> FALSE]
        ELSE [raised |-> FALSE, exc |-> "",
              observation |->
                 IF Truthy(r.result) THEN <<"result", name>> \o Str(r.result)
                 ELSE <<"no_output", name>>,
              finished |-> is_special_tool(name) /\ should_finish_execution(name, r.result)]

\* execute_tool without its "except Exception" clause: only a payload that
\* is no JSON is turned into an error text
execute_tool_json_only(command, behaviour) ==
    LET name == command.name
        t == execute_tool_try(name, command.arguments, behaviour)
    IN  IF name = ""
        THEN [raised |-> FALSE, exc |-> "", finished |-> FALSE,
              observation |-> <<"error", "invalid_command">>]
        ELSE IF name \notin tool_map
        THEN [raised |-> FALSE, exc |-> "", finished |-> FALSE,
              observation |-> <<"error", "unknown_tool", name>>]
        ELSE IF t.raised /\ t.exc = "JSONDecodeError"
        THEN [raised |-> FALSE, exc |-> "", finished |-> FALSE,
              observation |-> <<"error", "invalid_json", name>>]
        ELSE t

\* ToolCallAgent.execute_tool(command): the observation it returns and whether
\* _handle_special_tool set the state to FINISHED; JSONDecodeError and every
\* other Exception of the try block are turned into an error text
execute_tool(command, behaviour) ==
    LET name == command.name
        t == execute_tool_try(name, command.arguments, behaviour)
    IN  IF name = ""
        THEN [raised |-> FALSE, exc |-> "", finished |-> FALSE,
              observation |-> <<"error", "invalid_command">>]
        ELSE IF name \notin tool_map
        THEN [raised |-> FALSE, exc |-> "", finished |-> FALSE,
              observation |-> <<"error", "unknown_tool", name>>]
        ELSE IF t.raised /\ t.exc = "JSONDecodeError"
        THEN [raised |-> FALSE, exc |-> "", finished |-> FALSE,
              observation |-> <<"error", "invalid_json", name>>]
        ELSE IF t.raised
        THEN [raised |-> FALSE, exc |-> "", finished |-> FALSE,
              observation |-> <<"error", "exception", name>>]
        ELSE t

\* the outcome of the ToolCollection.execute call that execute_tool makes for
\* a command, when it gets that far
dispatcher_outcome(command, behaviour) ==
    LET parsed == json_loads(IF command.arguments = "" THEN "{}" ELSE command.arguments)
    IN  ToolCollection_execute(command.name, parsed, behaviour)

reaches_dispatcher(command) ==
    /\ command.name \in tool_map
    /\ ~json_loads(IF command.arguments = "" THEN "{}" ELSE command.arguments).error

(***************************************************************************)
(* BaseAgent.is_stuck and _handle_stuck_state.                             *)
(***************************************************************************)
\* the sum(...) of is_stuck: the assistant messages of msgs with this content
RECURSIVE duplicate_count(_, _)
duplicate_count(msgs, content) ==
    IF msgs = <<>> THEN 0
    ELSE (IF Head(msgs).role = "assistant" /\ Head(msgs).content = content THEN 1 ELSE 0)
         + duplicate_count(Tail(msgs), content)

\* is_stuck counting the latest message among its own duplicates
is_stuck_counting_latest(mem) ==
    IF Len(mem) < 2 THEN FALSE
    ELSE IF mem[Len(mem)].content = NoText THEN FALSE
    ELSE duplicate_count(mem, mem[Len(mem)].content) >= duplicate_threshold

\* BaseAgent.is_stuck
is_stuck(mem) ==
    IF Len(mem) < 2 THEN FALSE
    ELSE IF mem[Len(mem)].content = NoText THEN FALSE
    ELSE duplicate_count(SubSeq(mem, 1, Len(mem) - 1), mem[Len(mem)].content)
            >= duplicate_threshold

handle_stuck_state(prompt) ==
    IF prompt # NoText THEN <<stuck_prompt>> \o prompt ELSE prompt

(***************************************************************************)
(* The run in flight, as a record e of the agent's fields and run()'s      *)
(* locals; each operator is the code between two suspension points.        *)
(***************************************************************************)
\* state_context's entry without the transition
state_context_enter_keeps_state(e, new_state) ==
    [e EXCEPT !.previous_state = e.state]

\* state_context's entry: the state is remembered and replaced
state_context_enter(e, new_state) ==
    [e EXCEPT !.previous_state = e.state, !.state = new_state]

\* state_context's exit without the revert after an exception
state_context_exit_keeps_error(e, exception) ==
    IF exception THEN [e EXCEPT !.state = "ERROR"]
    ELSE [e EXCEPT !.state = e.previous_state]

\* state_context's exit: ERROR on an exception, then the previous state
state_context_exit(e, exception) ==
    LET e1 == IF exception THEN [e EXCEPT !.state = "ERROR"] ELSE e
    IN  [e1 EXCEPT !.state = e1.previous_state]

\* an exception leaves the step and run()
raise(e, exc) ==
    [state_context_exit(e, TRUE) EXCEPT !.pc = "idle", !.run_outcome = exc, !.clean = FALSE]

\* run(): the code after the loop
run_exit(e) ==
    LET e1 == IF e.current_step >= e.max_steps
              THEN [e EXCEPT !.current_step = 0, !.state = "IDLE",
                             !.results = Append(@, 0)]
              ELSE e
    IN  [state_context_exit(e1, FALSE) EXCEPT !.pc = "idle", !.run_outcome = "returned"]

\* ToolCallAgent.think up to the backend call: the next-step prompt goes
\* into memory by "self.messages += [user_msg]", which applies no cap
think_begin(e) ==
    [e EXCEPT !.memory = IF e.next_step_prompt # NoText
                         THEN Append(@, user_message(e.next_step_prompt))
                         ELSE @,
              !.pc = "think"]

\* the loop test of run() letting one more step through
run_loop_one_more(e) ==
    IF e.current_step <= e.max_steps /\ e.state # "FINISHED"
    THEN think_begin([e EXCEPT !.current_step = @ + 1])
    ELSE run_exit(e)

\* run(): the loop test and, when it holds, the step up to the backend call
run_loop(e) ==
    IF e.current_step < e.max_steps /\ e.state # "FINISHED"
    THEN think_begin([e EXCEPT !.current_step = @ + 1])
    ELSE run_exit(e)

\* run(): the rest of an iteration after step() returned
step_end(e) ==
    LET e1 == IF is_stuck(e.memory)
              THEN [e EXCEPT !.next_step_prompt = handle_stuck_state(@)]
              ELSE e
    IN  run_loop([e1 EXCEPT !.results = Append(@, e1.current_step)])

\* act() returning the last content also under the policy "required"
act_begin_lenient(e) ==
    IF e.tool_calls = <<>>
    THEN step_end(e)
    ELSE [e EXCEPT !.pc = "act", !.act_idx = 1, !.dispatched = <<>>]

\* ToolCallAgent.act up to its first dispatch
act_begin(e) ==
    IF e.tool_calls = <<>>
    THEN IF e.tool_choices = "required"
         THEN raise(e, "ValueError: TOOL_CALL_REQUIRED")
         ELSE step_end(e)                  \* returns the last message's content
    ELSE [e EXCEPT !.pc = "act", !.act_idx = 1, !.dispatched = <<>>]

\* ReActAgent.step after think() returned
step_after_think(e, should_act) ==
    LET e1 == [e EXCEPT !.think_ret = IF should_act THEN "True" ELSE "False"]
    IN  IF should_act THEN act_begin(e1) ELSE step_end(e1)

\* ToolCallAgent.think after the backend answered with (content, calls)
think_response(e, content, calls) ==
    LET e1 == [e EXCEPT !.tool_calls = calls, !.dispatched = <<>>,
                        !.proposed = [i \in 1..Len(calls) |-> calls[i].id]]
    IN  IF e1.tool_choices = "none"
        THEN IF content # NoText
             THEN step_after_think(
                    [e1 EXCEPT !.memory = add_message(@, assistant_message(content))], TRUE)
             ELSE step_after_think(e1, FALSE)
        ELSE LET m == IF calls # <<>> THEN from_tool_calls(content, calls)
                      ELSE assistant_message(content)
                 e2 == [e1 EXCEPT !.memory = add_message(@, m)]
             IN  IF e2.tool_choices = "required" /\ calls = <<>>
                 THEN step_after_think(e2, TRUE)
                 ELSE IF e2.tool_choices = "auto" /\ calls = <<>>
                 THEN step_after_think(e2, content # NoText)
                 ELSE step_after_think(e2, calls # <<>>)

\* think() leaving the state as it is when the token budget is exceeded
think_token_limit_stays_running(e) ==
    step_after_think(
        [e EXCEPT !.memory = add_message(@, assistant_message(<<"token_limit">>)),
                  !.clean = FALSE, !.dispatched = <<>>],
        FALSE)

\* ToolCallAgent.think when ask_tool failed with a RetryError caused by
\* TokenLimitExceeded
think_token_limit(e) ==
    step_after_think(
        [e EXCEPT !.memory = add_message(@, assistant_message(<<"token_limit">>)),
                  !.state = "FINISHED", !.clean = FALSE, !.dispatched = <<>>],
        FALSE)

\* act() keeping a failed dispatch out of the memory
act_dispatch_drop_failed(e, behaviour) ==
    LET command == e.tool_calls[e.act_idx]
        x == execute_tool(command, behaviour)
        e1 == [e EXCEPT !.dispatched = Append(@, command.id),
                        !.last_execute = IF reaches_dispatcher(command)
                                         THEN dispatcher_outcome(command, behaviour)
                                         ELSE @]
        e2 == [e1 EXCEPT !.state = IF x.finished THEN "FINISHED" ELSE @,
                         !.clean = IF x.finished THEN FALSE ELSE @,
                         !.memory = IF x.observation[1] = "error" THEN @
                                    ELSE add_message(@,
                                           tool_message(x.observation, command.name,
                                                        command.id))]
    IN  IF x.raised THEN raise(e1, x.exc)
        ELSE IF e.act_idx < Len(e.tool_calls)
        THEN [e2 EXCEPT !.act_idx = @ + 1]
        ELSE step_end(e2)

\* ToolCallAgent.act: one iteration of its loop over tool_calls
act_dispatch(e, behaviour) ==
    LET command == e.tool_calls[e.act_idx]
        x == execute_tool(command, behaviour)
        e1 == [e EXCEPT !.dispatched = Append(@, command.id),
                        !.last_execute = IF reaches_dispatcher(command)
                                         THEN dispatcher_outcome(command, behaviour)
                                         ELSE @]
        e2 == [e1 EXCEPT !.state = IF x.finished THEN "FINISHED" ELSE @,
                         !.clean = IF x.finished THEN FALSE ELSE @,
                         !.memory = add_message(@,
                             tool_message(x.observation, command.name, command.id))]
    IN  IF x.raised THEN raise(e1, x.exc)
        ELSE IF e.act_idx < Len(e.tool_calls)
        THEN [e2 EXCEPT !.act_idx = @ + 1]
        ELSE step_end(e2)

(***************************************************************************)
(* What the reasoning backend may answer.                                  *)
(***************************************************************************)
\* what the callers pass to run(): main.py the prompt it read, PlanningFlow
\* its step prompt
Requests == {<<"request">>}

\* free-text contents of a response; NoText is "no content"
Contents == {NoText, <<"a">>}

\* tool invocations a response may propose: a known tool, a terminating
\* tool with and without its required status, an unknown tool, a payload
\* that is no JSON, a JSON payload that is no object
Proposals ==
    { [name |-> "bash",      arguments |-> "{command:ls}"],
      [name |-> "bash",      arguments |-> "{oops"],
      [name |-> "bash",      arguments |-> "[1]"],
      [name |-> "terminate", arguments |-> "{status:success}"],
      [name |-> "terminate", arguments |-> "{}"],
      [name |-> "nosuch",    arguments |-> "{}"] }

\* the lists of invocations of one response: none, one, or two of which the
\* second is a call of a known tool that may succeed or a terminating call
ProposalLists ==
    {<<>>} \cup {<<p>> : p \in Proposals}
           \cup {<<p, q>> : p \in Proposals,
                            q \in {[name |-> "bash", arguments |-> "{command:ls}"]}}
           \cup {<<[name |-> "bash", arguments |-> "{command:ls}"],
                   [name |-> "terminate", arguments |-> "{status:success}"]>>}

\* the backend gives each invocation an id of its own
with_ids(n, ps) == [i \in 1..Len(ps) |-> ToolCall(n + i, ps[i].name, ps[i].arguments)]

\* the behaviours the tool of a command can show when it is called
behaviours_of(command) ==
    IF command.name = "bash" /\ command.arguments = "{command:ls}"
    THEN ToolBehaviours ELSE {"output"}

(***************************************************************************)
(* The state machine.                                                      *)
(***************************************************************************)
Env ==
    [state |-> state, current_step |-> current_step, max_steps |-> max_steps,
     tool_choices |-> tool_choices, next_step_prompt |-> next_step_prompt,
     memory |-> memory, tool_calls |-> tool_calls, pc |-> pc,
     previous_state |-> previous_state, act_idx |-> act_idx, results |-> results,
     run_outcome |-> run_outcome, think_ret |-> think_ret, dispatched |-> dispatched,
     proposed |-> proposed, thinks |-> thinks, run_error |-> "",
     last_execute |-> last_execute, issued |-> issued, clean |-> clean]

\* the agent's fields and the run's locals become those of e
Assign(e) ==
    /\ state' = e.state
    /\ current_step' = e.current_step
    /\ max_steps' = e.max_steps
    /\ tool_choices' = e.tool_choices
    /\ next_step_prompt' = e.next_step_prompt
    /\ memory' = e.memory
    /\ tool_calls' = e.tool_calls
    /\ pc' = e.pc
    /\ previous_state' = e.previous_state
    /\ act_idx' = e.act_idx
    /\ results' = e.results
    /\ run_outcome' = e.run_outcome
    /\ think_ret' = e.think_ret
    /\ dispatched' = e.dispatched
    /\ proposed' = e.proposed
    /\ thinks' = e.thinks
    /\ run_error' = e.run_error
    /\ last_execute' = e.last_execute
    /\ issued' = e.issued
    /\ clean' = e.clean
    /\ special_tools' = special_tools

Commit(e) == Assign(e) /\ UNCHANGED <<stuck_ret, planVars, llmVars, restVars>>

\* an agent as constructed, with one of the given states, budgets, policies
\* and next-step prompts, nothing run yet
InitAgent(states, budgets, policies, prompts) ==
    /\ state \in states
    /\ current_step = 0
    /\ max_steps \in budgets
    /\ tool_choices \in policies
    /\ next_step_prompt \in prompts
    /\ memory = <<>>
    /\ tool_calls = <<>>
    /\ pc = "idle"
    /\ previous_state = "IDLE"
    /\ act_idx = 0
    /\ results = <<>>
    /\ run_outcome = "none"
    /\ think_ret = "none"
    /\ dispatched = <<>>
    /\ proposed = <<>>
    /\ thinks = 0
    /\ run_error = ""
    /\ last_execute = Returned(ToolResult(NoText, NoText))
    /\ issued = 0
    /\ clean = TRUE
    /\ stuck_ret = "none"

\* the precondition of run() weakened to "no run in flight"
run_allowed_unless_running(st) == st # "RUNNING"

\* BaseAgent.run's precondition
run_allowed(st) == st = "IDLE"

\* run(request) called while the precondition fails: RuntimeError
RunRejected ==
    /\ ~run_allowed(state)
    /\ run_error = ""
    /\ Commit([Env EXCEPT !.run_error = "RuntimeError"])

\* run(request) from its call to the first backend call (or to its return);
\* the observations of the previous run are forgotten
run_begin(e, request) ==
    run_loop(state_context_enter(
         [e EXCEPT !.memory = IF request # NoText
                              THEN add_message(@, user_message(request)) ELSE @,
                   !.results = <<>>,
                   !.think_ret = "none",
                   !.dispatched = <<>>,
                   !.proposed = <<>>,
                   !.last_execute = Returned(ToolResult(NoText, NoText)),
                   !.run_outcome = "running"], "RUNNING"))

\* run(request) called while the precondition holds
RunStart(request) ==
    /\ run_allowed(state)
    /\ pc = "idle"
    /\ thinks < MaxThinks
    /\ Commit(run_begin(Env, request))

\* the backend answers the think() in flight
BackendResponds(content, ps) ==
    /\ pc = "think"
    /\ thinks < MaxThinks
    /\ issued + Len(ps) <= MaxProposed
    /\ Commit(think_response([Env EXCEPT !.issued = @ + Len(ps), !.thinks = @ + 1], content,
                             with_ids(issued, ps)))

\* ask_tool gives up on TokenLimitExceeded
BackendTokenLimit ==
    /\ pc = "think"
    /\ thinks < MaxThinks
    /\ Commit(think_token_limit([Env EXCEPT !.thinks = @ + 1]))

\* ask_tool gives up on another error
BackendFails ==
    /\ pc = "think"
    /\ thinks < MaxThinks
    /\ Commit(raise([Env EXCEPT !.think_ret = "raised", !.thinks = @ + 1], "RetryError"))

\* the tool of the command act() is at returns or raises
ToolReturns(behaviour) ==
    /\ pc = "act"
    /\ behaviour \in behaviours_of(tool_calls[act_idx])
    /\ Commit(act_dispatch(Env, behaviour))

NextAgent ==
    \/ RunRejected
    \/ \E request \in Requests : RunStart(request)
    \/ \E content \in Contents, ps \in ProposalLists : BackendResponds(content, ps)
    \/ BackendTokenLimit
    \/ BackendFails
    \/ \E behaviour \in ToolBehaviours : ToolReturns(behaviour)

(***************************************************************************)
(* The conversation memory of an agent at rest: update_memory and          *)
(* is_stuck called from outside a run.                                     *)
(***************************************************************************)
\* the roles and contents update_memory is called with
MemoryRoles == {"user", "assistant", "tool"}

MemoryContents == {NoText, <<"a">>, <<"b">>}

\* BaseAgent.update_memory(role, content, name=..., tool_call_id=...)
UpdateMemory(role, content) ==
    /\ pc = "idle"
    /\ memory' = add_message(memory,
                    IF role = "tool" THEN tool_message(content, "bash", 1)
                    ELSE IF role = "user" THEN user_message(content)
                    ELSE assistant_message(content))
    /\ stuck_ret' = "none"
    /\ UNCHANGED <<state, current_step, max_steps, tool_choices, next_step_prompt,
                   tool_calls, pc, previous_state, act_idx, results, run_outcome,
                   think_ret, dispatched, proposed, thinks, run_error,
                   last_execute, issued, clean, special_tools>>
    /\ UNCHANGED <<planVars, llmVars, restVars>>

\* BaseAgent.is_stuck()
IsStuckCalled ==
    /\ pc = "idle"
    /\ stuck_ret = "none"
    /\ stuck_ret' = (IF is_stuck(memory) THEN "True" ELSE "False")
    /\ UNCHANGED <<agentVars, planVars, llmVars, restVars>>

NextMemory ==
    \/ \E role \in MemoryRoles, content \in MemoryContents : UpdateMemory(role, content)
    \/ IsStuckCalled

(***************************************************************************)
(* The plan store: PlanningTool (app/tool/planning.py).  An optional value *)
(* is a sequence: <<>> is None, <<v>> is the value v.  Step indices are    *)
(* the code's (from 0); step i is at position i + 1 of the lists.          *)
(***************************************************************************)
\* the ids plans are stored under, and the ids commands are given
PlanIds == {"p1"}

PlanIdArgs == PlanIds \cup {"", "p9"}

PlanTitles == {"T1", "T2"}

StepTexts == {"A", "B"}

\* the non-empty lists of steps of at most MaxPlanSteps steps
StepLists == UNION {[1..n -> StepTexts] : n \in 1..MaxPlanSteps}

\* a steps argument: a list of strings (possibly empty or None), or a value
\* that is no list of strings
StepsArg(list) == [valid |-> TRUE, list |-> list]

BadSteps == [valid |-> FALSE, list |-> <<>>]

PlanStepStatus == {"not_started", "in_progress", "completed", "blocked"}

\* get_active_statuses counting blocked steps as active
get_active_statuses_with_blocked == {"not_started", "in_progress", "blocked"}

\* PlanStepStatus.get_active_statuses
get_active_statuses == {"not_started", "in_progress"}

NoPlan ==
    [exists |-> FALSE, title |-> "", steps |-> <<>>, step_statuses |-> <<>>,
     step_notes |-> <<>>]

\* the fields of the tool: the stored plans and the active-plan pointer
PlanStore(ps, cur) == [plans |-> ps, current |-> cur]

\* how a command ends: it returned, or raised ToolError, and the store then
Done(store) == [raised |-> FALSE, store |-> store]

ToolError(store) == [raised |-> TRUE, store |-> store]

has_plan(s, plan_id) == plan_id \in PlanIds /\ s.plans[plan_id].exists

\* PlanningTool._create_plan
create_plan(s, plan_id, title, steps) ==
    IF plan_id = "" THEN ToolError(s)
    ELSE IF has_plan(s, plan_id) THEN ToolError(s)
    ELSE IF title = "" THEN ToolError(s)
    ELSE IF steps.list = <<>> \/ ~steps.valid THEN ToolError(s)
    ELSE Done([s EXCEPT
            !.plans[plan_id] =
                [exists |-> TRUE, title |-> title, steps |-> steps.list,
                 step_statuses |-> [i \in 1..Len(steps.list) |-> "not_started"],
                 step_notes |-> [i \in 1..Len(steps.list) |-> ""]],
            !.current = plan_id])

\* PlanningTool._update_plan: the title is stored before the steps are
\* validated; a step keeps its status and notes where the same text stays
\* at the same position
update_plan(s, plan_id, title, steps) ==
    IF plan_id = "" THEN ToolError(s)
    ELSE IF ~has_plan(s, plan_id) THEN ToolError(s)
    ELSE LET s1 == IF title # "" THEN [s EXCEPT !.plans[plan_id].title = title] ELSE s
             old == s1.plans[plan_id]
             kept(i) == i <= Len(old.steps) /\ steps.list[i] = old.steps[i]
         IN  IF ~steps.valid THEN ToolError(s1)
             ELSE IF steps.list = <<>> THEN Done(s1)
             ELSE Done([s1 EXCEPT
                    !.plans[plan_id].steps = steps.list,
                    !.plans[plan_id].step_statuses =
                        [i \in 1..Len(steps.list) |->
                            IF kept(i) THEN old.step_statuses[i] ELSE "not_started"],
                    !.plans[plan_id].step_notes =
                        [i \in 1..Len(steps.list) |->
                            IF kept(i) THEN old.step_notes[i] ELSE ""]])

\* PlanningTool._set_active_plan
set_active_plan(s, plan_id) ==
    IF plan_id = "" THEN ToolError(s)
    ELSE IF ~has_plan(s, plan_id) THEN ToolError(s)
    ELSE Done([s EXCEPT !.current = plan_id])

\* PlanningTool._mark_step
mark_step(s, plan_id, step_index, step_status, step_notes) ==
    LET id == IF plan_id = "" THEN s.current ELSE plan_id
    IN  IF id = "" THEN ToolError(s)
        ELSE IF ~has_plan(s, id) THEN ToolError(s)
        ELSE IF step_index = <<>> THEN ToolError(s)
        ELSE IF step_index[1] < 0 \/ step_index[1] >= Len(s.plans[id].steps)
        THEN ToolError(s)
        ELSE IF step_status # "" /\ step_status \notin PlanStepStatus THEN ToolError(s)
        ELSE Done([s EXCEPT
               !.plans[id].step_statuses[step_index[1] + 1] =
                   IF step_status # "" THEN step_status ELSE @,
               !.plans[id].step_notes[step_index[1] + 1] =
                   IF step_notes # "" THEN step_notes ELSE @])

\* PlanningTool._delete_plan
delete_plan(s, plan_id) ==
    IF plan_id = "" THEN ToolError(s)
    ELSE IF ~has_plan(s, plan_id) THEN ToolError(s)
    ELSE Done([s EXCEPT !.plans[plan_id] = NoPlan,
                        !.current = IF @ = plan_id THEN "" ELSE @])

(***************************************************************************)
(* The text of a plan (PlanningTool._format_plan) and the scanner of       *)
(* PlanningAgent.  A text is a sequence of lines, a line a sequence of     *)
(* tokens; the non-ASCII literals of the code have ASCII stand-ins.        *)
(***************************************************************************)
\* the header line _format_plan writes before the steps (the Japanese word
\* for "steps" and a colon)
StepsHeader == "Suteppu:"

\* the header line _get_current_step_index looks for
ScannedHeader == "Steps:"

\* the status markers: "[>]" stands for the arrow, "[v]" for the check mark
status_symbol(status) ==
    CASE status = "not_started" -> "[ ]"
      [] status = "in_progress" -> "[>]"
      [] status = "completed"   -> "[v]"
      [] status = "blocked"     -> "[!]"
      [] OTHER                  -> "[ ]"

Min(S) == CHOOSE x \in S : \A y \in S : x <= y

Count(statuses, status) == Cardinality({i \in DOMAIN statuses : statuses[i] = status})

\* notes that hold a line break: the text n, then a line that reads like
\* the header the scanner looks for
HeaderNote == "n/Steps:"

\* the lines the notes of a step take in the text of the plan
note_lines(notes) ==
    IF notes = "" THEN <<>>
    ELSE IF notes = HeaderNote THEN << <<"memo:", "n">>, <<ScannedHeader>> >>
    ELSE << <<"memo:", notes>> >>

\* the lines of the steps from position i on: zip() stops at the shortest
\* of the three lists; the lines of its notes follow a step that has notes
RECURSIVE format_steps(_, _)
format_steps(plan, i) ==
    IF i > Len(plan.steps) \/ i > Len(plan.step_statuses) \/ i > Len(plan.step_notes)
    THEN <<>>
    ELSE <<  <<ToString(i - 1), status_symbol(plan.step_statuses[i]), plan.steps[i]>>  >>
         \o note_lines(plan.step_notes[i])
         \o format_steps(plan, i + 1)

\* PlanningTool._format_plan
format_plan(plan, plan_id) ==
    <<  <<"plan:", plan.title, "ID:", plan_id>>,
        <<"====">>,
        <<>>,
        <<"progress:", ToString(Count(plan.step_statuses, "completed")),
          ToString(Len(plan.steps))>>,
        <<"status:", ToString(Count(plan.step_statuses, "completed")),
          ToString(Count(plan.step_statuses, "in_progress")),
          ToString(Count(plan.step_statuses, "blocked")),
          ToString(Count(plan.step_statuses, "not_started"))>>,
        <<>>,
        <<StepsHeader>>  >>
    \o format_steps(plan, 1)

\* PlanningTool._get_plan
get_plan(s, plan_id) ==
    LET id == IF plan_id = "" THEN s.current ELSE plan_id
    IN  IF id = "" \/ ~has_plan(s, id) THEN [raised |-> TRUE, lines |-> <<>>]
        ELSE [raised |-> FALSE, lines |-> format_plan(s.plans[id], id)]

\* the id of the plan of the PlanningAgent and of the PlanningFlow
active_plan_id == "p1"

\* "marker in line"
InLine(token, line) == \E k \in DOMAIN line : line[k] = token

\* the parsing of PlanningAgent._get_current_step_index: the offset, after
\* the header line, of the first line that holds an active marker; None
\* without a text (get_plan gave no output) or without a header line
scan_current_step_index(text) ==
    LET lines == text.lines
        headers == {i \in DOMAIN lines : lines[i] = <<ScannedHeader>>}
        active(h) == {j \in 0..(Len(lines) - h - 1) :
                         InLine("[ ]", lines[h + 1 + j]) \/ InLine("[>]", lines[h + 1 + j])}
    IN  IF text.raised \/ headers = {} THEN <<>>
        ELSE IF active(Min(headers)) = {} THEN <<>>
        ELSE <<Min(active(Min(headers)))>>

\* PlanningAgent._get_current_step_index: the index it returns and the store
\* it leaves; ToolCollection.execute returns the ToolError of mark_step as a
\* failure
get_current_step_index(s) ==
    LET found == scan_current_step_index(get_plan(s, active_plan_id))
    IN  [index |-> found,
         store |-> IF found = <<>> THEN s
                   ELSE mark_step(s, active_plan_id, found, "in_progress", "").store]

(***************************************************************************)
(* PlanningFlow's reading and writing of the stored plan.                  *)
(***************************************************************************)
\* statuses extended with not_started up to n entries
Padded(statuses, n) ==
    statuses \o [k \in 1..(n - Len(statuses)) |-> "not_started"]

\* the status _get_current_step_info reads for the step at position i
status_read(plan, i) ==
    IF i > Len(plan.step_statuses) THEN "not_started" ELSE plan.step_statuses[i]

\* PlanningFlow._get_current_step_info: the index it returns and the store
\* it leaves; when mark_step raises, the status list is written directly
get_current_step_info(s) ==
    LET plan == s.plans[active_plan_id]
        open == {i \in 1..Len(plan.steps) : status_read(plan, i) \in get_active_statuses}
        i == Min(open) - 1
        m == mark_step(s, active_plan_id, <<i>>, "in_progress", "")
        direct == IF i < Len(plan.step_statuses)
                  THEN [plan.step_statuses EXCEPT ![i + 1] = "in_progress"]
                  ELSE Padded(plan.step_statuses, i) \o <<"in_progress">>
    IN  IF ~has_plan(s, active_plan_id) THEN [index |-> <<>>, store |-> s]
        ELSE IF open = {} THEN [index |-> <<>>, store |-> s]
        ELSE IF ~m.raised THEN [index |-> <<i>>, store |-> m.store]
        ELSE [index |-> <<i>>,
              store |-> [s EXCEPT !.plans[active_plan_id].step_statuses = direct]]

\* _mark_step_completed without its direct write
mark_step_completed_tool_only(s, step_index) ==
    IF step_index = <<>> THEN s
    ELSE mark_step(s, active_plan_id, step_index, "completed", "").store

\* PlanningFlow._mark_step_completed: when mark_step raises and the plan is
\* stored, the status list is padded up to the index and written directly
mark_step_completed(s, step_index) ==
    LET m == mark_step(s, active_plan_id, step_index, "completed", "")
        statuses == s.plans[active_plan_id].step_statuses
        i == step_index[1]
        padded == IF Len(statuses) <= i THEN Padded(statuses, i + 1) ELSE statuses
    IN  IF step_index = <<>> THEN s
        ELSE IF ~m.raised THEN m.store
        ELSE IF ~has_plan(s, active_plan_id) THEN s
        ELSE [s EXCEPT !.plans[active_plan_id].step_statuses =
                           [padded EXCEPT ![i + 1] = "completed"]]

(***************************************************************************)
(* The callers of the plan store: plan-tool commands (of an agent's tool   *)
(* calls or of the flow's plan creation), the PlanningFlow loop and the    *)
(* PlanningAgent's scan.                                                   *)
(***************************************************************************)
Store == PlanStore(plans, current_plan_id)

\* the effect of a plan-tool command that ended as r
PlanCall(r) ==
    /\ plans' = r.store.plans
    /\ current_plan_id' = r.store.current
    /\ plan_call_raised' = r.raised
    /\ UNCHANGED <<flow_pc, flow_step_index, agent_step_index, flow_result, agentVars,
                   stuck_ret, llmVars, restVars>>

\* the arguments commands are given: every combination for a stored id,
\* one combination for each id that cannot be stored
StepsArgs == {StepsArg(l) : l \in StepLists \cup {<<>>}} \cup {BadSteps}

IndexArgs == {<<>>} \cup {<<i>> : i \in (0 - 1)..MaxPlanSteps}

StatusArgs == PlanStepStatus \cup {"", "bogus"}

NotesArgs == {"", "n"}

CreateArgs ==
    {<<id, t, st>> : id \in PlanIds, t \in {"", "T1"}, st \in StepsArgs}
        \cup {<<"", "T1", StepsArg(<<"A">>)>>}

UpdateArgs ==
    {<<id, t, st>> : id \in PlanIds, t \in {"", "T2"}, st \in StepsArgs}
        \cup {<<id, "T2", StepsArg(<<"A">>)>> : id \in PlanIdArgs \ PlanIds}

MarkStepArgs ==
    {<<id, i, st, n>> : id \in PlanIds, i \in IndexArgs, st \in StatusArgs, n \in NotesArgs}
        \cup {<<id, <<0>>, "completed", "">> : id \in PlanIdArgs \ PlanIds}

PlanCreate(plan_id, title, steps) == PlanCall(create_plan(Store, plan_id, title, steps))

PlanUpdate(plan_id, title, steps) == PlanCall(update_plan(Store, plan_id, title, steps))

PlanSetActive(plan_id) == PlanCall(set_active_plan(Store, plan_id))

PlanMarkStep(plan_id, step_index, step_status, step_notes) ==
    PlanCall(mark_step(Store, plan_id, step_index, step_status, step_notes))

PlanDelete(plan_id) == PlanCall(delete_plan(Store, plan_id))

\* PlanningFlow.execute: the scan at the top of its loop; with a step found
\* the executor is started, without one the flow ends
FlowScan ==
    /\ flow_pc = "scan"
    /\ LET r == get_current_step_info(Store)
       IN  /\ plans' = r.store.plans
           /\ current_plan_id' = r.store.current
           /\ flow_step_index' = r.index
           /\ flow_pc' = IF r.index = <<>> THEN "scan" ELSE "step"
    /\ UNCHANGED <<plan_call_raised, agent_step_index, flow_result, agentVars, stuck_ret,
                   llmVars, restVars>>

\* PlanningFlow._execute_step: the executor's run() returned, the step is
\* marked completed
FlowStepReturns ==
    /\ flow_pc = "step"
    /\ LET s == mark_step_completed(Store, flow_step_index)
       IN  /\ plans' = s.plans
           /\ current_plan_id' = s.current
    /\ flow_pc' = "scan"
    /\ UNCHANGED <<plan_call_raised, flow_step_index, agent_step_index, flow_result,
                   agentVars, stuck_ret, llmVars, restVars>>

\* PlanningFlow._execute_step: the executor's run() raised, nothing is marked
FlowStepFails ==
    /\ flow_pc = "step"
    /\ flow_pc' = "scan"
    /\ UNCHANGED <<plans, current_plan_id, plan_call_raised, flow_step_index,
                   agent_step_index, flow_result, agentVars, stuck_ret, llmVars, restVars>>

\* PlanningAgent.think: current_step_index = _get_current_step_index()
AgentScan ==
    /\ LET r == get_current_step_index(Store)
       IN  /\ plans' = r.store.plans
           /\ current_plan_id' = r.store.current
           /\ agent_step_index' = r.index
    /\ plan_call_raised' = get_plan(Store, active_plan_id).raised
    /\ UNCHANGED <<flow_pc, flow_step_index, flow_result, agentVars, stuck_ret, llmVars, restVars>>

NextPlan ==
    \/ \E a \in CreateArgs : PlanCreate(a[1], a[2], a[3])
    \/ \E a \in UpdateArgs : PlanUpdate(a[1], a[2], a[3])
    \/ \E plan_id \in PlanIdArgs : PlanSetActive(plan_id)
    \/ \E a \in MarkStepArgs : PlanMarkStep(a[1], a[2], a[3], a[4])
    \/ \E plan_id \in PlanIdArgs : PlanDelete(plan_id)
    \/ FlowScan
    \/ FlowStepReturns
    \/ FlowStepFails
    \/ AgentScan

\* no plan stored, no flow step in progress
InitPlan ==
    /\ plans = [id \in PlanIds |-> NoPlan]
    /\ current_plan_id = ""
    /\ plan_call_raised = FALSE
    /\ flow_pc = "scan"
    /\ flow_step_index = <<>>
    /\ agent_step_index = <<>>
    /\ flow_result = <<>>

(***************************************************************************)
(* PlanningFlow.execute with its executor: the flow creates its plan, then *)
(* scans it, runs the executor agent on the step it selected and marks the *)
(* step, until no step is active.  The plan tool is the flow's own; the    *)
(* executor is the agent of this model, run by the flow alone.             *)
(***************************************************************************)
\* _execute_step marking the step completed however the run ended
execute_step_end_marks_always(s, step_index, outcome) ==
    mark_step_completed(s, step_index)

\* _execute_step after executor.run(): a run that returned marks the step
\* completed, a run that raised marks nothing
execute_step_end(s, step_index, outcome) ==
    IF outcome = "returned" THEN mark_step_completed(s, step_index) ELSE s

\* execute() leaving its loop after every step
execute_after_step_always_stops(st) == "done"

\* execute(): the test at the end of an iteration, on the executor's state
execute_after_step(st) == IF st = "FINISHED" THEN "done" ELSE "scan"

\* the run that just ended dispatched a terminating tool with success
TerminatedByTool ==
    /\ run_outcome = "returned"
    /\ \E i \in DOMAIN tool_calls :
          /\ \E k \in DOMAIN dispatched : dispatched[k] = tool_calls[i].id
          /\ tool_calls[i].name = "terminate"
          /\ tool_calls[i].arguments = "{status:success}"

\* what execute() adds to its result for a step
StepResult(index, outcome, terminated) ==
    [index |-> index, outcome |-> outcome, terminated |-> terminated]

\* a part of the result of execute() that belongs to no step
FlowText(kind) == [index |-> 0 - 1, outcome |-> kind, terminated |-> FALSE]

\* the default plan of _create_initial_plan
DefaultSteps == <<"analyze", "execute", "verify">>

DefaultTitle == "T0"

\* the tool calls the backend's planning response can hold: a call of
\* another tool, a planning call whose arguments do not parse, and planning
\* calls of the commands list, get and create
PlanToolCall(name, parsable, command, steps) ==
    [name |-> name, parsable |-> parsable, command |-> command, title |-> "T1",
     steps |-> steps]

PlanToolCalls ==
    {PlanToolCall("other", TRUE, "", BadSteps),
     PlanToolCall("planning", FALSE, "", BadSteps),
     PlanToolCall("planning", TRUE, "list", BadSteps),
     PlanToolCall("planning", TRUE, "get", BadSteps)}
        \cup {PlanToolCall("planning", TRUE, "create", st) :
                st \in {StepsArg(l) : l \in StepLists} \cup {BadSteps}}

PlanResponses == UNION {[1..n -> PlanToolCalls] : n \in 0..MaxProposed}

\* PlanningTool.execute as _create_initial_plan calls it, the plan id set
\* to the active plan id
planning_tool_execute(s, call) ==
    IF call.command = "create"
    THEN create_plan(s, active_plan_id, call.title, call.steps)
    ELSE IF call.command = "get"
    THEN (IF get_plan(s, active_plan_id).raised THEN ToolError(s) ELSE Done(s))
    ELSE Done(s)

\* _create_initial_plan creating the default plan whatever the response
create_initial_plan_default_only(s, calls) ==
    create_plan(s, active_plan_id, DefaultTitle, StepsArg(DefaultSteps))

\* _create_initial_plan after ask_tool returned: the first planning call
\* whose arguments parse is executed and ends the creation; without one the
\* default plan is created
create_initial_plan(s, calls) ==
    LET usable == {i \in DOMAIN calls : calls[i].name = "planning" /\ calls[i].parsable}
    IN  IF usable # {} THEN planning_tool_execute(s, calls[Min(usable)])
        ELSE create_plan(s, active_plan_id, DefaultTitle, StepsArg(DefaultSteps))

\* execute() with an input text, up to its loop: _create_initial_plan, then
\* the test that a plan is stored under the active plan id
ExecuteCreatesPlan(calls) ==
    /\ flow_pc = "create"
    /\ LET r == create_initial_plan(Store, calls)
           stored == has_plan(r.store, active_plan_id)
       IN  /\ plans' = r.store.plans
           /\ current_plan_id' = r.store.current
           /\ plan_call_raised' = r.raised
           /\ flow_pc' = IF ~r.raised /\ stored THEN "scan" ELSE "done"
           /\ flow_result' = IF r.raised THEN <<FlowText("execute_failed")>>
                             ELSE IF stored THEN <<>>
                             ELSE <<FlowText("create_failed")>>
    /\ UNCHANGED <<flow_step_index, agent_step_index, agentVars, stuck_ret, llmVars, restVars>>

\* execute() with an input text whose ask_tool raised
ExecuteAskToolRaises ==
    /\ flow_pc = "create"
    /\ flow_pc' = "done"
    /\ flow_result' = <<FlowText("execute_failed")>>
    /\ UNCHANGED <<plans, current_plan_id, plan_call_raised, flow_step_index,
                   agent_step_index, agentVars, stuck_ret, llmVars, restVars>>

\* execute() with an empty input text: no plan is created
ExecuteWithoutInput ==
    /\ flow_pc = "create"
    /\ flow_pc' = "scan"
    /\ UNCHANGED <<plans, current_plan_id, plan_call_raised, flow_step_index,
                   agent_step_index, flow_result, agentVars, stuck_ret, llmVars, restVars>>

\* execute(): the scan at the top of the loop; without an active step the
\* loop goes on to _finalize_plan
ExecuteScan ==
    /\ flow_pc = "scan"
    /\ LET r == get_current_step_info(Store)
       IN  /\ plans' = r.store.plans
           /\ current_plan_id' = r.store.current
           /\ flow_step_index' = r.index
           /\ flow_pc' = IF r.index = <<>> THEN "finalize" ELSE "start"
    /\ UNCHANGED <<plan_call_raised, agent_step_index, flow_result, agentVars,
                   stuck_ret, llmVars, restVars>>

\* _finalize_plan whose llm.ask returned the summary, and the break
ExecuteFinalizes ==
    /\ flow_pc = "finalize"
    /\ flow_pc' = "done"
    /\ flow_result' = Append(flow_result, FlowText("finalized"))
    /\ UNCHANGED <<plans, current_plan_id, plan_call_raised, flow_step_index,
                   agent_step_index, agentVars, stuck_ret, llmVars, restVars>>

\* _finalize_plan whose llm.ask raised: the primary agent is run on the
\* summary prompt
ExecuteSummaryRunStarts(request) ==
    /\ flow_pc = "finalize"
    /\ pc = "idle"
    /\ thinks < MaxThinks
    /\ Assign(IF run_allowed(state) THEN run_begin(Env, request)
              ELSE [Env EXCEPT !.run_outcome = "RuntimeError"])
    /\ flow_pc' = "summary"
    /\ UNCHANGED <<plans, current_plan_id, plan_call_raised, flow_step_index,
                   agent_step_index, flow_result, stuck_ret, llmVars, restVars>>

\* _finalize_plan after the summary run returned or raised, and the break
ExecuteSummaryEnds ==
    /\ flow_pc = "summary"
    /\ pc = "idle"
    /\ flow_pc' = "done"
    /\ flow_result' = Append(flow_result, FlowText("finalized"))
    /\ UNCHANGED <<plans, current_plan_id, plan_call_raised, flow_step_index,
                   agent_step_index, agentVars, stuck_ret, llmVars, restVars>>

\* _execute_step: executor.run(step_prompt) is called
ExecutorRunStarts(request) ==
    /\ flow_pc = "start"
    /\ pc = "idle"
    /\ thinks < MaxThinks
    /\ Assign(IF run_allowed(state) THEN run_begin(Env, request)
              ELSE [Env EXCEPT !.run_outcome = "RuntimeError"])
    /\ flow_pc' = "step"
    /\ UNCHANGED <<plans, current_plan_id, plan_call_raised, flow_step_index,
                   agent_step_index, flow_result, stuck_ret, llmVars, restVars>>

\* _execute_step after executor.run() returned or raised, and the end of
\* the iteration of execute()
ExecuteStepEnds ==
    /\ flow_pc = "step"
    /\ pc = "idle"
    /\ LET s == execute_step_end(Store, flow_step_index, run_outcome)
       IN  /\ plans' = s.plans
           /\ current_plan_id' = s.current
    /\ flow_result' = Append(flow_result,
                         StepResult(flow_step_index[1],
                                    IF run_outcome = "returned" THEN "returned" ELSE "error",
                                    TerminatedByTool))
    /\ flow_pc' = execute_after_step(state)
    /\ UNCHANGED <<plan_call_raised, flow_step_index, agent_step_index, agentVars,
                   stuck_ret, llmVars, restVars>>

NextFlow ==
    \/ \E calls \in PlanResponses : ExecuteCreatesPlan(calls)
    \/ ExecuteAskToolRaises
    \/ ExecuteWithoutInput
    \/ ExecuteScan
    \/ ExecuteFinalizes
    \/ \E request \in Requests : ExecuteSummaryRunStarts(request)
    \/ ExecuteSummaryEnds
    \/ \E request \in Requests : ExecutorRunStarts(request)
    \/ \E content \in Contents, ps \in ProposalLists : BackendResponds(content, ps)
    \/ BackendTokenLimit
    \/ BackendFails
    \/ \E behaviour \in ToolBehaviours : ToolReturns(behaviour)
    \/ ExecuteStepEnds

\* the plans a planning tool handed to the flow can hold under the active
\* plan id
GivenPlans ==
    {[exists |-> TRUE, title |-> "T2", steps |-> <<"A", "B">>, step_statuses |-> st,
      step_notes |-> <<"", "">>] : st \in [1..2 -> PlanStepStatus]}

\* the same plans after a mark_step command gave the first step notes of
\* two lines
NotedPlans ==
    {[p EXCEPT !.step_notes = <<HeaderNote, "">>] : p \in GivenPlans}

\* a flow as constructed, execute() not yet called: its planning tool is
\* its own and empty, or was handed to it with a plan under the active id
InitFlow ==
    /\ plans \in {[id \in PlanIds |-> p] : p \in {NoPlan} \cup GivenPlans}
    /\ current_plan_id = (IF plans[active_plan_id].exists THEN active_plan_id ELSE "")
    /\ plan_call_raised = FALSE
    /\ flow_pc = "create"
    /\ flow_step_index = <<>>
    /\ agent_step_index = <<>>
    /\ flow_result = <<>>

(***************************************************************************)
(* The reasoning client: LLM.ask and LLM.ask_tool under their retry        *)
(* decorator (app/llm.py).  Token counts are small numbers; the waits      *)
(* between attempts take no part in the model.                             *)
(***************************************************************************)
\* the kinds of call: ask(stream=True), ask(stream=False), ask_tool
CallKinds == {"ask_stream", "ask", "ask_tool"}

\* the input-token counts of a call: its estimate, and the backend's
\* usage.prompt_tokens
TokenCounts == 1..MaxCallTokens

\* the exceptions of an attempt
TokenLimitExceeded == "TokenLimitExceeded"

ValueError == "ValueError"

OpenAIError == "OpenAIError"

\* what the backend does with a request: a message with content, a message
\* without content, no choices at all, or an error of the API
Responses == {"content", "empty_content", "no_choices", OpenAIError}

\* LLM.check_token_limit
check_token_limit(total, budget, input_tokens) ==
    IF budget # <<>> THEN total + input_tokens <= budget[1] ELSE TRUE

\* the retry condition of the decorator: retry_if_exception_type((OpenAIError,
\* Exception, ValueError)) holds for every instance of Exception, and
\* TokenLimitExceeded is one (OpenManusError(Exception))
retry_if_exception_type(exc) == exc \in {OpenAIError, ValueError, TokenLimitExceeded}

\* the client's fields and the call in flight
Client ==
    [total_input_tokens |-> total_input_tokens, llm_pc |-> llm_pc, llm_call |-> llm_call,
     attempt_number |-> attempt_number, llm_sent |-> llm_sent,
     llm_outcome |-> llm_outcome, llm_cause |-> llm_cause]

\* LLM.update_token_count
update_token_count(c, input_tokens) ==
    [c EXCEPT !.total_input_tokens = @ + input_tokens]

\* the decorator giving up after the first failed attempt
attempt_failed_never_retries(c, exc) ==
    [c EXCEPT !.llm_pc = "idle", !.llm_outcome = "RetryError", !.llm_cause = exc]

\* the decorator after an attempt raised exc: another attempt while the
\* condition holds and the cap is not reached, else RetryError from exc
\* (an exception outside the condition is raised as it is)
attempt_failed(c, exc) ==
    IF ~retry_if_exception_type(exc)
    THEN [c EXCEPT !.llm_pc = "idle", !.llm_outcome = exc, !.llm_cause = exc]
    ELSE IF c.attempt_number >= stop_after_attempt
    THEN [c EXCEPT !.llm_pc = "idle", !.llm_outcome = "RetryError", !.llm_cause = exc]
    ELSE [c EXCEPT !.llm_pc = "attempt", !.attempt_number = @ + 1, !.llm_cause = exc]

\* an attempt up to its request: the budget check, then (streaming) the
\* count of the estimate, then the request
attempt_begin(c, budget) ==
    IF ~check_token_limit(c.total_input_tokens, budget, c.llm_call.input_tokens)
    THEN attempt_failed(c, TokenLimitExceeded)
    ELSE LET c1 == IF c.llm_call.kind = "ask_stream"
                   THEN update_token_count(c, c.llm_call.input_tokens)
                   ELSE c
         IN  [c1 EXCEPT !.llm_pc = "sent", !.llm_sent = @ + 1]

\* whether the call takes the response as a result
usable(kind, response) ==
    CASE kind = "ask_tool" -> response \in {"content", "empty_content"}
      [] OTHER             -> response = "content"

\* an attempt after the backend answered its request
attempt_end(c, response, prompt_tokens) ==
    IF response = OpenAIError THEN attempt_failed(c, OpenAIError)
    ELSE IF ~usable(c.llm_call.kind, response) THEN attempt_failed(c, ValueError)
    ELSE LET c1 == IF c.llm_call.kind = "ask_stream" THEN c
                   ELSE update_token_count(c, prompt_tokens)
         IN  [c1 EXCEPT !.llm_pc = "idle", !.llm_outcome = "returned", !.llm_cause = ""]

CommitClient(c) ==
    /\ total_input_tokens' = c.total_input_tokens
    /\ llm_pc' = c.llm_pc
    /\ llm_call' = c.llm_call
    /\ attempt_number' = c.attempt_number
    /\ llm_sent' = c.llm_sent
    /\ llm_outcome' = c.llm_outcome
    /\ llm_cause' = c.llm_cause
    /\ UNCHANGED <<max_input_tokens, agentVars, stuck_ret, planVars, restVars>>

NoCall == [kind |-> "", input_tokens |-> 0, total_before |-> 0]

\* a caller calls ask or ask_tool with messages of this many tokens
LLMCalled(kind, input_tokens) ==
    /\ llm_pc = "idle"
    /\ total_input_tokens < MaxTotalTokens
    /\ CommitClient([Client EXCEPT !.llm_pc = "attempt",
                                   !.llm_call = [kind |-> kind, input_tokens |-> input_tokens,
                                                 total_before |-> total_input_tokens],
                                   !.attempt_number = 1, !.llm_sent = 0,
                                   !.llm_outcome = "running", !.llm_cause = ""])

\* the decorator runs the body of the call once more
LLMAttempt ==
    /\ llm_pc = "attempt"
    /\ CommitClient(attempt_begin(Client, max_input_tokens))

\* the backend answers the request in flight
LLMBackendAnswers(response, prompt_tokens) ==
    /\ llm_pc = "sent"
    /\ CommitClient(attempt_end(Client, response, prompt_tokens))

NextLLM ==
    \/ \E kind \in CallKinds, n \in TokenCounts : LLMCalled(kind, n)
    \/ LLMAttempt
    \/ \E response \in Responses, n \in TokenCounts : LLMBackendAnswers(response, n)

\* a client as constructed, with one of the given budgets
InitLLM(budgets) ==
    /\ total_input_tokens = 0
    /\ max_input_tokens \in budgets
    /\ llm_pc = "idle"
    /\ llm_call = NoCall
    /\ attempt_number = 0
    /\ llm_sent = 0
    /\ llm_outcome = "none"
    /\ llm_cause = ""

\* the budgets a client is configured with: none, or a number of tokens
Budgets == {<<>>} \cup {<<n>> : n \in 1..MaxBudget}

(***************************************************************************)
(* The executor selection of PlanningFlow: the type of a step is read from *)
(* its text, character by character, and get_executor picks the agent.     *)
(* Agents are named by the keys they are registered under.                 *)
(***************************************************************************)
MaxTextLen == 4

\* the characters of a step text: the brackets, an uppercase letter and a
\* lowercase letter
Chars == {"[", "]", "A", "b"}

\* the characters of the class [A-Z_]
Uppercase == {"A"}

\* str.lower on one character
lower(c) == IF c = "A" THEN "a" ELSE c

CharTexts == UNION {[1..n -> Chars] : n \in 0..MaxTextLen}

\* where the tag that opens at position i closes, 0 when none opens there
tag_end(text, i) ==
    LET closes == {j \in (i + 2)..Len(text) :
                      /\ text[j] = "]"
                      /\ \A k \in (i + 1)..(j - 1) : text[k] \in Uppercase}
    IN  IF text[i] = "[" /\ closes # {} THEN Min(closes) ELSE 0

\* re.search(r"\[([A-Z_]+)\]", step): group 1 of the leftmost match, empty
\* without a match
type_match(text) ==
    LET starts == {i \in 1..Len(text) : tag_end(text, i) # 0}
    IN  IF starts = {} THEN <<>>
        ELSE SubSeq(text, Min(starts) + 1, tag_end(text, Min(starts)) - 1)

\* step_info["type"]: the matched tag in lower case; empty for no type
step_type(text) == [k \in 1..Len(type_match(text)) |-> lower(type_match(text)[k])]

Range(seq) == {seq[i] : i \in DOMAIN seq}

\* get_executor looking at the executor keys alone
get_executor_by_order_only(ags, keys, primary, type) ==
    LET hits == {i \in DOMAIN keys : keys[i] \in Range(ags)}
    IN  IF hits # {} THEN keys[Min(hits)] ELSE primary

\* PlanningFlow.get_executor
get_executor(ags, keys, primary, type) ==
    LET hits == {i \in DOMAIN keys : keys[i] \in Range(ags)}
    IN  IF type # <<>> /\ type \in Range(ags) THEN type
        ELSE IF hits # {} THEN keys[Min(hits)]
        ELSE primary

\* the keys agents are registered under, and a key of no agent
AgentKeys == {<<"a">>, <<"b">>}

UnregisteredKey == <<"z">>

\* the agents dictionaries of a flow, in insertion order
AgentDicts ==
    {<<x>> : x \in AgentKeys} \cup {d \in AgentKeys \X AgentKeys : d[1] # d[2]}

\* the executors argument of the constructor
ExecutorKeyLists ==
    LET K == AgentKeys \cup {UnregisteredKey}
    IN  {<<>>} \cup {<<x>> : x \in K} \cup {<<x, y>> : x \in K, y \in K}

\* execute(): the type of the selected step is read and get_executor called
SelectExecutor ==
    /\ executor = <<>>
    /\ executor' = <<get_executor(agents, executor_keys, primary_agent_key,
                                  step_type(step_text))>>
    /\ UNCHANGED <<agents, primary_agent_key, executor_keys, step_text>>
    /\ UNCHANGED <<agentVars, stuck_ret, planVars, llmVars, callers, toolVars, plannerVars>>

NextSelect == SelectExecutor

\* a flow as constructed from its agents and its executors argument, and a
\* step it has selected
InitSelection ==
    /\ agents \in AgentDicts
    /\ primary_agent_key \in Range(agents)
    /\ executor_keys \in {IF given = <<>> THEN agents ELSE given :
                             given \in ExecutorKeyLists}
    /\ step_text \in CharTexts
    /\ executor = <<>>

(***************************************************************************)
(* One reasoning client shared by concurrent callers (LLM is one instance  *)
(* per configuration name).  Every caller runs ask or ask_tool under the   *)
(* retry decorator; the callers take turns at the awaits of their calls,   *)
(* that is between the budget check and the backend's answer.  The         *)
(* backend's token count of a request equals the caller's estimate.        *)
(***************************************************************************)
\* the callers of the shared client
Callers == {"c1", "c2"}

\* a caller that has not called
NoCaller ==
    [llm_pc |-> "idle", llm_call |-> NoCall, attempt_number |-> 0, llm_sent |-> 0,
     llm_outcome |-> "none", llm_cause |-> ""]

\* the client as caller i sees it: the shared total and its own call
ClientOf(i) ==
    [total_input_tokens |-> total_input_tokens, llm_pc |-> callers[i].llm_pc,
     llm_call |-> callers[i].llm_call, attempt_number |-> callers[i].attempt_number,
     llm_sent |-> callers[i].llm_sent, llm_outcome |-> callers[i].llm_outcome,
     llm_cause |-> callers[i].llm_cause]

CommitCaller(i, c) ==
    /\ total_input_tokens' = c.total_input_tokens
    /\ callers' = [callers EXCEPT ![i] =
                      [llm_pc |-> c.llm_pc, llm_call |-> c.llm_call,
                       attempt_number |-> c.attempt_number, llm_sent |-> c.llm_sent,
                       llm_outcome |-> c.llm_outcome, llm_cause |-> c.llm_cause]]
    /\ UNCHANGED <<max_input_tokens, llm_pc, llm_call, attempt_number, llm_sent,
                   llm_outcome, llm_cause>>
    /\ UNCHANGED <<agentVars, stuck_ret, planVars, selectVars, toolVars, plannerVars>>

\* caller i calls ask or ask_tool, once
CallerCalls(i, kind, input_tokens) ==
    /\ callers[i].llm_outcome = "none"
    /\ CommitCaller(i, [ClientOf(i) EXCEPT
                          !.llm_pc = "attempt",
                          !.llm_call = [kind |-> kind, input_tokens |-> input_tokens,
                                        total_before |-> total_input_tokens],
                          !.attempt_number = 1, !.llm_outcome = "running"])

\* caller i runs an attempt up to its request
CallerAttempts(i) ==
    /\ callers[i].llm_pc = "attempt"
    /\ CommitCaller(i, attempt_begin(ClientOf(i), max_input_tokens))

\* the backend answers the request of caller i
CallerAnswered(i, response) ==
    /\ callers[i].llm_pc = "sent"
    /\ CommitCaller(i, attempt_end(ClientOf(i), response, callers[i].llm_call.input_tokens))

NextShared ==
    \/ \E i \in Callers, kind \in CallKinds, n \in TokenCounts : CallerCalls(i, kind, n)
    \/ \E i \in Callers : CallerAttempts(i)
    \/ \E i \in Callers, response \in Responses : CallerAnswered(i, response)

CallersAtRest == callers = [i \in Callers |-> NoCaller]

(***************************************************************************)
(* The tools that wrap one session each: BrowserUseTool (browser and       *)
(* context), Bash (shell session) and Terminal (working directory and      *)
(* process), one instance of each, under concurrent dispatches.  A         *)
(* dispatch gives way to the others at its awaits: while it waits for a    *)
(* lock, while the shell starts and while its command runs.                *)
(***************************************************************************)
Dispatches == {"d1", "d2", "d3"}

\* the operations dispatched: a browser action, a bash command, a terminal
\* command and a terminal cd
ToolOps == {"browser", "bash", "terminal", "terminal_cd"}

\* the tools whose execute takes the lock of the instance around its work
TakesLock(op) == op \in {"browser", "terminal"}

Paths == {"p0", "p1"}

NoDispatch == [op |-> "", pc |-> "idle"]

\* a dispatch is at an await inside the session of the tool of its operation
InSession(d, tool) ==
    /\ dispatches[d].pc \in {"starting", "inside"}
    /\ dispatches[d].op \in (IF tool = "terminal" THEN {"terminal", "terminal_cd"} ELSE {tool})

\* execute() is called: BrowserUseTool.execute and Terminal.execute take the
\* lock or wait for it; Bash.execute creates and starts the session when
\* there is none, else runs the command; a terminal cd is handled at once
DispatchStarts(d, op, path) ==
    /\ dispatches[d].pc = "idle"
    /\ dispatches' = [dispatches EXCEPT ![d] =
          [op |-> op,
           pc |-> IF TakesLock(op) THEN (IF lock[op] = <<>> THEN "inside" ELSE "waiting")
                  ELSE IF op = "bash" THEN (IF bash_session = <<>> THEN "starting" ELSE "inside")
                  ELSE "done"]]
    /\ lock' = IF TakesLock(op) /\ lock[op] = <<>> THEN [lock EXCEPT ![op] = <<d>>] ELSE lock
    /\ bash_session' = IF op = "bash" /\ bash_session = <<>> THEN <<d>> ELSE bash_session
    /\ current_path' = IF op = "terminal_cd" THEN path ELSE current_path
    /\ UNCHANGED <<agentVars, stuck_ret, planVars, llmVars, selectVars, callers, plannerVars>>

\* a waiting dispatch gets the lock
DispatchAcquires(d) ==
    /\ dispatches[d].pc = "waiting"
    /\ lock[dispatches[d].op] = <<>>
    /\ dispatches' = [dispatches EXCEPT ![d].pc = "inside"]
    /\ lock' = [lock EXCEPT ![dispatches[d].op] = <<d>>]
    /\ UNCHANGED <<bash_session, current_path>>
    /\ UNCHANGED <<agentVars, stuck_ret, planVars, llmVars, selectVars, callers, plannerVars>>

\* Bash.execute: the session it created has started, the command is run
BashSessionStarted(d) ==
    /\ dispatches[d].pc = "starting"
    /\ dispatches' = [dispatches EXCEPT ![d].pc = "inside"]
    /\ UNCHANGED <<lock, bash_session, current_path>>
    /\ UNCHANGED <<agentVars, stuck_ret, planVars, llmVars, selectVars, callers, plannerVars>>

\* the work of a dispatch ends and execute() returns, releasing its lock
DispatchEnds(d) ==
    /\ dispatches[d].pc = "inside"
    /\ dispatches' = [dispatches EXCEPT ![d].pc = "done"]
    /\ lock' = IF TakesLock(dispatches[d].op) THEN [lock EXCEPT ![dispatches[d].op] = <<>>]
               ELSE lock
    /\ UNCHANGED <<bash_session, current_path>>
    /\ UNCHANGED <<agentVars, stuck_ret, planVars, llmVars, selectVars, callers, plannerVars>>

NextTools ==
    \/ \E d \in Dispatches, op \in ToolOps, path \in Paths : DispatchStarts(d, op, path)
    \/ \E d \in Dispatches : DispatchAcquires(d)
    \/ \E d \in Dispatches : BashSessionStarted(d)
    \/ \E d \in Dispatches : DispatchEnds(d)

\* the tools as constructed, nothing dispatched
InitTools ==
    /\ dispatches = [d \in Dispatches |-> NoDispatch]
    /\ lock = [op \in {"browser", "terminal"} |-> <<>>]
    /\ bash_session = <<>>
    /\ current_path = "p0"

(***************************************************************************)
(* The PlanningAgent's think() and act() around those of ToolCallAgent     *)
(* (app/agent/planning.py): the scan for the current step, the record made *)
(* for the first tool call of a response and its completion after act().   *)
(* The planning calls of a response are get commands, which leave the plan *)
(* as it is; a terminate call ends the run.                                *)
(***************************************************************************)
\* the tool calls a response proposes to the planner
PlannerProposals ==
    {[name |-> "planning", arguments |-> "{}"],
     [name |-> "terminate", arguments |-> "{status:success}"],
     [name |-> "bash", arguments |-> "{}"]}

PlannerProposalLists == UNION {[1..n -> PlannerProposals] : n \in 0..MaxProposed}

\* the test of think() and act() on the name of a tool call
tracked_tool(name) == name # "planning" /\ name \notin special_tool_names

\* an entry of step_execution_tracker
StepExecutionRecord(id, step_index, tool_name, status) ==
    [id |-> id, step_index |-> step_index, tool_name |-> tool_name, status |-> status]

\* PlanningAgent.think: the scan for the current step, ToolCallAgent.think
\* with the backend's response, and the record for the first tool call
PlannerThinks(ps) ==
    /\ planner_pc = "think"
    /\ planner_thinks < MaxThinks
    /\ LET r == get_current_step_index(Store)
           calls == with_ids(MaxProposed * planner_thinks, ps)
       IN  /\ plans' = r.store.plans
           /\ current_plan_id' = r.store.current
           /\ agent_step_index' = r.index
           /\ planner_calls' = calls
           /\ step_execution_tracker' =
                 IF calls # <<>> /\ tracked_tool(calls[1].name) /\ r.index # <<>>
                 THEN {rec \in step_execution_tracker : rec.id # calls[1].id}
                        \cup {StepExecutionRecord(calls[1].id, r.index[1], calls[1].name,
                                                  "pending")}
                 ELSE step_execution_tracker
           /\ planner_pc' = IF calls # <<>> THEN "act" ELSE "think"
    /\ planner_thinks' = planner_thinks + 1
    /\ UNCHANGED <<plan_call_raised, flow_pc, flow_step_index, flow_result>>
    /\ UNCHANGED <<agentVars, stuck_ret, llmVars, selectVars, callers, toolVars>>

\* PlanningAgent.update_plan_status for the record rec: the step of the
\* record is marked completed; a failure of the command is swallowed
update_plan_status(s, rec) ==
    IF rec.status # "completed" THEN s
    ELSE mark_step(s, active_plan_id, <<rec.step_index>>, "completed", "").store

\* PlanningAgent.act: ToolCallAgent.act, then the record of the first tool
\* call is completed and its step marked
PlannerActs ==
    /\ planner_pc = "act"
    /\ LET latest == planner_calls[1]
           recs == {rec \in step_execution_tracker : rec.id = latest.id}
           done == {[rec EXCEPT !.status = "completed"] : rec \in recs}
           s == IF recs # {} /\ tracked_tool(latest.name)
                THEN update_plan_status(Store, CHOOSE rec \in done : TRUE)
                ELSE Store
       IN  /\ step_execution_tracker' = (step_execution_tracker \ recs) \cup done
           /\ plans' = s.plans
           /\ current_plan_id' = s.current
    /\ planner_pc' = IF \E i \in DOMAIN planner_calls : planner_calls[i].name = "terminate"
                     THEN "done" ELSE "think"
    /\ UNCHANGED <<planner_calls, planner_thinks>>
    /\ UNCHANGED <<plan_call_raised, flow_pc, flow_step_index, agent_step_index, flow_result>>
    /\ UNCHANGED <<agentVars, stuck_ret, llmVars, selectVars, callers, toolVars>>

NextPlanner ==
    \/ \E ps \in PlannerProposalLists : PlannerThinks(ps)
    \/ PlannerActs

\* a planner that has proposed nothing yet
PlannerAtRest ==
    /\ step_execution_tracker = {}
    /\ planner_calls = <<>>
    /\ planner_pc = "think"
    /\ planner_thinks = 0

(***************************************************************************)
(* PlanningAgent.run (app/agent/planning.py): with a request, the initial  *)
(* plan is created first (a backend call, its answer recorded in memory,   *)
(* the first planning call of the answer executed), then BaseAgent.run is  *)
(* called without a request.  The planning calls of the answer name the    *)
(* plan id the agent asked for.                                            *)
(***************************************************************************)
\* the tool call the memory records for a proposed planning-response call
recorded_call(id, call) ==
    ToolCall(id, call.name, IF call.parsable THEN call.command ELSE "{oops")

\* ToolCallAgent.execute_tool on a planning call: the store it leaves and
\* the text it returns; arguments that are no JSON and the ToolError of a
\* command both end as a text
execute_planning_call(s, call) ==
    LET r == planning_tool_execute(s, call)
    IN  IF ~call.parsable
        THEN [store |-> s, observation |-> <<"error", "invalid_json", "planning">>]
        ELSE IF r.raised
        THEN [store |-> r.store, observation |-> <<"result", "planning", "error", "tool_error">>]
        ELSE [store |-> r.store, observation |-> <<"result", "planning", "out">>]

\* the user message create_initial_plan builds from the request
plan_request(request) == user_message(<<"create_plan">> \o request)

\* PlanningAgent.create_initial_plan after ask_tool answered with content
\* and calls: the request and the answer are recorded, the first call named
\* planning is executed and recorded, the others are passed over; without a
\* planning call an error notice is recorded
planner_create_initial_plan(e, s, request, content, calls) ==
    LET ids == [i \in 1..Len(calls) |-> e.issued + i]
        recorded == [i \in 1..Len(calls) |-> recorded_call(ids[i], calls[i])]
        planning == {i \in DOMAIN calls : calls[i].name = "planning"}
        first == Min(planning)
        x == execute_planning_call(s, calls[first])
        e1 == [e EXCEPT !.memory = add_message(Append(@, plan_request(request)),
                                               from_tool_calls(content, recorded)),
                        !.issued = @ + Len(calls),
                        !.thinks = @ + 1]
    IN  IF planning # {}
        THEN [agent |-> [e1 EXCEPT !.memory =
                            add_message(@, tool_message(x.observation, "planning", ids[first]))],
              store |-> x.store]
        ELSE [agent |-> [e1 EXCEPT !.memory =
                            add_message(@, assistant_message(<<"error", "plan_id_required">>))],
              store |-> s]

\* PlanningAgent.think up to the backend call of ToolCallAgent.think: the
\* prompt with the plan status is appended, the plan is scanned, then the
\* next-step prompt is appended
planner_think_begin(e) ==
    think_begin([e EXCEPT !.memory =
                    Append(@, user_message(<<"plan_status">> \o e.next_step_prompt))])

\* BaseAgent.run() as PlanningAgent.run calls it, without a request: the
\* precondition, then the loop up to the first backend call of think()
planner_super_run(e) ==
    LET e1 == state_context_enter(
                 [e EXCEPT !.results = <<>>, !.think_ret = "none", !.dispatched = <<>>,
                           !.proposed = <<>>, !.run_outcome = "running"], "RUNNING")
    IN  IF ~run_allowed(e.state) THEN [e EXCEPT !.run_error = "RuntimeError"]
        ELSE IF e1.current_step < e1.max_steps /\ e1.state # "FINISHED"
        THEN planner_think_begin([e1 EXCEPT !.current_step = @ + 1])
        ELSE run_exit(e1)

\* the effect of a run() call on the planner and on its plan tool: the
\* store after the plan creation is scanned by the first think()
PlannerRun(e, s) ==
    LET a == planner_super_run(e)
        r == IF run_allowed(e.state) /\ a.pc = "think" THEN get_current_step_index(s)
             ELSE [index |-> agent_step_index, store |-> s]
    IN  /\ Assign(a)
        /\ plans' = r.store.plans
        /\ current_plan_id' = r.store.current
        /\ agent_step_index' = r.index
        /\ UNCHANGED <<plan_call_raised, flow_pc, flow_step_index, flow_result, stuck_ret,
                       llmVars, restVars>>

\* PlanningAgent.run(request) whose ask_tool answered
PlannerRunCalled(request, content, calls) ==
    /\ thinks < MaxThinks
    /\ issued + Len(calls) <= MaxProposed
    /\ LET c == planner_create_initial_plan(Env, Store, request, content, calls)
       IN  PlannerRun(c.agent, c.store)

\* PlanningAgent.run(request) whose ask_tool raised: the request is in the
\* memory, the exception leaves run()
PlannerRunAskToolRaises(request) ==
    /\ thinks < MaxThinks
    /\ run_error = ""
    /\ Assign([Env EXCEPT !.memory = Append(@, plan_request(request)),
                          !.thinks = @ + 1,
                          !.run_error = "RetryError"])
    /\ UNCHANGED <<planVars, stuck_ret, llmVars, restVars>>

\* PlanningAgent.run() without a request
PlannerRunWithoutRequest ==
    /\ run_error = ""
    /\ PlannerRun(Env, Store)

NextPlannerRun ==
    \/ \E request \in Requests, content \in Contents, calls \in PlanResponses :
          PlannerRunCalled(request, content, calls)
    \/ \E request \in Requests : PlannerRunAskToolRaises(request)
    \/ PlannerRunWithoutRequest

(***************************************************************************)
(* The specifications.                                                     *)
(***************************************************************************)
\* the special tools of the agents of the repository
DefaultSpecialTools == special_tools = special_tool_names

\* an agent built with one fixed configuration
AgentAtRest == InitAgent({"IDLE"}, {0}, {"auto"}, {NoText}) /\ DefaultSpecialTools

\* a client without a budget
LLMAtRest == InitLLM({<<>>})

\* a flow of one agent that has selected no executor
SelectionAtRest ==
    /\ agents = <<<<"a">>>>
    /\ primary_agent_key = <<"a">>
    /\ executor_keys = <<<<"a">>>>
    /\ step_text = <<>>
    /\ executor = <<>>

RestAtRest == SelectionAtRest /\ CallersAtRest /\ InitTools /\ PlannerAtRest

\* agents built with the default state, run by their callers
Init == InitAgent({"IDLE"}, 0..MaxStepBudget, ToolChoice, {NoText, NEXT_STEP_PROMPT})
           /\ DefaultSpecialTools /\ InitPlan /\ LLMAtRest /\ RestAtRest

Next == NextAgent

Spec == Init /\ [][Next]_vars

\* agents built with any value of the state field
InitAnyState == InitAgent(AgentState, 0..MaxStepBudget, ToolChoice, {NoText, NEXT_STEP_PROMPT})
           /\ DefaultSpecialTools /\ InitPlan /\ LLMAtRest /\ RestAtRest

SpecAnyState == InitAnyState /\ [][Next]_vars

\* the sets an agent's special_tool_names is configured with: the default,
\* and one that also names a tool able to fail with ToolError
SpecialToolSets == {special_tool_names, tool_map}

\* agents built with any of these sets of special tools
InitAnySpecialTools ==
    /\ InitAgent({"IDLE"}, 1..MaxStepBudget, {"auto"}, {NoText, NEXT_STEP_PROMPT})
    /\ special_tools \in SpecialToolSets
    /\ InitPlan
    /\ LLMAtRest
    /\ RestAtRest

SpecAnySpecialTools == InitAnySpecialTools /\ [][Next]_vars

\* the memory of an agent at rest, written and tested from outside
InitMemory == AgentAtRest /\ InitPlan /\ LLMAtRest /\ RestAtRest

SpecMemory == InitMemory /\ [][NextMemory]_vars

\* the plan store under the commands of its callers
InitPlanStore == AgentAtRest /\ InitPlan /\ LLMAtRest /\ RestAtRest

SpecPlan == InitPlanStore /\ [][NextPlan]_vars

\* a PlanningFlow executing its plan with an executor agent
InitExecute ==
    /\ InitAgent({"IDLE"}, 1..MaxStepBudget, {"auto", "required"}, {NEXT_STEP_PROMPT})
    /\ DefaultSpecialTools
    /\ InitFlow
    /\ LLMAtRest
    /\ RestAtRest

SpecFlow == InitExecute /\ [][NextFlow]_vars

\* the reasoning client under the calls of its callers
InitClient == AgentAtRest /\ InitPlan /\ InitLLM(Budgets) /\ RestAtRest

SpecLLM == InitClient /\ [][NextLLM]_vars

\* the same with the decorator running every attempt that is due after its
\* wait, and the backend answering (or timing out on) every request
SpecLLMFair ==
    /\ InitClient
    /\ [][NextLLM]_vars
    /\ WF_vars(LLMAttempt)
    /\ WF_vars(\E response \in Responses, n \in TokenCounts : LLMBackendAnswers(response, n))

\* the executor selection of a flow for one step
InitSelect ==
    /\ AgentAtRest /\ InitPlan /\ LLMAtRest /\ InitSelection
    /\ CallersAtRest /\ InitTools /\ PlannerAtRest

\* one client with a budget, shared by callers that have not called yet
InitShared ==
    /\ AgentAtRest /\ InitPlan /\ SelectionAtRest
    /\ InitLLM({<<n>> : n \in 1..MaxBudget})
    /\ CallersAtRest
    /\ InitTools
    /\ PlannerAtRest

SpecShared == InitShared /\ [][NextShared]_vars

\* the session tools under concurrent dispatches
InitDispatch ==
    /\ AgentAtRest /\ InitPlan /\ LLMAtRest /\ SelectionAtRest
    /\ CallersAtRest /\ InitTools /\ PlannerAtRest

SpecTools == InitDispatch /\ [][NextTools]_vars

\* a PlanningAgent in its run, on a plan tool without a plan or with a plan
\* under the active plan id
InitPlanner ==
    /\ AgentAtRest /\ LLMAtRest /\ SelectionAtRest /\ CallersAtRest /\ InitTools
    /\ plans \in {[id \in PlanIds |-> p] : p \in {NoPlan} \cup GivenPlans \cup NotedPlans}
    /\ current_plan_id = (IF plans[active_plan_id].exists THEN active_plan_id ELSE "")
    /\ plan_call_raised = FALSE
    /\ flow_pc = "create"
    /\ flow_step_index = <<>>
    /\ agent_step_index = <<>>
    /\ flow_result = <<>>
    /\ PlannerAtRest

SpecPlanner == InitPlanner /\ [][NextPlanner]_vars

SpecSelect == InitSelect /\ [][NextSelect]_vars

\* a PlanningAgent as constructed, its plan tool empty, run by its callers
InitPlannerRun ==
    /\ InitAgent({"IDLE"}, 1..MaxStepBudget, {"auto"}, {NEXT_STEP_PROMPT})
    /\ DefaultSpecialTools
    /\ InitPlan
    /\ LLMAtRest
    /\ RestAtRest

SpecPlannerRun == InitPlannerRun /\ [][NextPlannerRun]_vars

\* an agent whose memory is also written from outside its runs: answers of
\* an earlier conversation are put back by update_memory("assistant", ...)
NextRecalling ==
    \/ \E content \in {<<"a">>} : UpdateMemory("assistant", content)
    \/ RunRejected
    \/ \E request \in Requests : RunStart(request)
    \/ \E content \in Contents, ps \in ProposalLists : BackendResponds(content, ps)
    \/ BackendTokenLimit
    \/ BackendFails
    \/ \E behaviour \in ToolBehaviours : ToolReturns(behaviour)

InitRecalling ==
    /\ InitAgent({"IDLE"}, 1..MaxStepBudget, {"auto"}, {NoText, NEXT_STEP_PROMPT})
    /\ DefaultSpecialTools
    /\ InitPlan
    /\ LLMAtRest
    /\ RestAtRest

SpecRecalling == InitRecalling /\ [][NextRecalling]_vars

(***************************************************************************)
(* Properties of the agent.                                                *)
(***************************************************************************)
\* a step that is a call of run()
RunCalled == RunRejected \/ \E request \in Requests : RunStart(request)

\* a step in which act() dispatches the command it is at
Dispatching == pc = "act" /\ \E behaviour \in ToolBehaviours : ToolReturns(behaviour)

\* the tool-role messages of a memory, oldest first
ToolMsgs(mem) == SelectSeq(mem, LAMBDA m : m.role = "tool")

\* s is the end of t
IsSuffix(s, t) == Len(s) <= Len(t) /\ s = SubSeq(t, Len(t) - Len(s) + 1, Len(t))

\* the tokens of a text
Tokens(text) == {text[i] : i \in DOMAIN text}

\* C1: a run() call made while the state is RUNNING, FINISHED or ERROR fails
\* with the state-violation error (RuntimeError), runs no step (no think, no
\* act, current_step as it was) and leaves the state and every other field
\* of the agent unchanged.
C1_RunRejectedOutsideIdle ==
    [][(RunCalled /\ state \in {"RUNNING", "FINISHED", "ERROR"})
          => /\ run_error' = "RuntimeError"
             /\ UNCHANGED <<state, current_step, max_steps, tool_choices,
                            next_step_prompt, memory, tool_calls, pc,
                            previous_state, act_idx, results, run_outcome,
                            think_ret, dispatched, proposed, thinks,
                            last_execute, issued, clean>>]_vars

C1_Witness_RejectedInError == state = "ERROR" /\ run_error = "RuntimeError"

\* C2: whatever the budget max_steps >= 0, a run() that returned on an agent
\* whose steps never executed a terminating tool and never failed has
\* executed the steps 1..max_steps and no other (then the termination
\* notice), and leaves current_step = 0 and the state IDLE.
C2_CleanRunExecutesBudget ==
    (clean /\ run_outcome = "returned")
        => /\ results = [i \in 1..max_steps |-> i] \o <<0>>
           /\ current_step = 0
           /\ state = "IDLE"

C2_Witness_FullBudgetRun ==
    /\ clean
    /\ run_outcome = "returned"
    /\ max_steps = MaxStepBudget
    /\ results = [i \in 1..MaxStepBudget |-> i] \o <<0>>

\* the dispatch of this command fails: unknown tool, a payload that is no
\* JSON or no JSON object, or (outcome of the dispatcher) the tool raised
DispatchFails(command, outcome) ==
    \/ command.name \notin tool_map
    \/ json_loads(command.arguments).error
    \/ ~json_loads(command.arguments).dict
    \/ outcome.raised
    \/ outcome.result.error # NoText

\* C3: execute_tool never raises into act(): when the tool is unknown, the
\* payload is no JSON or no JSON object, or the tool raises whatever
\* exception, the text it returns (the content of the tool message) encodes
\* the error, and act() goes on to the next proposed call.
C3_ExecuteToolNeverRaises ==
    [][Dispatching =>
         LET command == tool_calls[act_idx]
             after == ToolMsgs(memory')
         IN  /\ run_outcome' \in {"running", "returned"}
             /\ after # <<>>
             /\ after[Len(after)].tool_call_id = command.id
             /\ DispatchFails(command, last_execute')
                   => "error" \in Tokens(after[Len(after)].content)
             /\ act_idx < Len(tool_calls)
                   => pc' = "act" /\ act_idx' = act_idx + 1 /\ tool_calls' = tool_calls]_vars

C3_Witness_ToolRaisedThenNextCall ==
    /\ pc = "act"
    /\ act_idx = 2
    /\ ToolMsgs(memory) # <<>>
    /\ ToolMsgs(memory)[Len(ToolMsgs(memory))].content = <<"error", "exception", "bash">>

\* C4: ToolCollection.execute never raises to its caller: an unknown tool
\* and every failure of a tool, whatever the kind of the exception, come
\* back as a ToolResult.
C4_DispatcherNeverRaises == ~last_execute.raised

C4_Reached_TerminateWithoutStatus ==
    /\ last_execute.raised
    /\ last_execute.exc = "ValueError"

\* the ids of the tool-role messages of a memory, oldest first
ToolMsgIds(mem) == [i \in 1..Len(ToolMsgs(mem)) |-> ToolMsgs(mem)[i].tool_call_id]

\* C5: the n >= 1 invocations of a response are dispatched in the order
\* proposed; each dispatch, failed or not, appends exactly one tool-role
\* message carrying the id and the tool name of its invocation before the
\* next one is dispatched, so that a completed act() has appended n of them
\* in proposal order.
C5_OneToolMessagePerDispatchInOrder ==
    /\ [][Dispatching =>
            LET command == tool_calls[act_idx]
                before == ToolMsgs(memory)
                after == ToolMsgs(memory')
            IN  /\ command.id = proposed[Len(dispatched) + 1]
                /\ dispatched' = Append(dispatched, command.id)
                /\ after # <<>>
                /\ after[Len(after)].tool_call_id = command.id
                /\ after[Len(after)].name = command.name
                /\ IsSuffix(SubSeq(after, 1, Len(after) - 1), before)
                /\ Len(after) <= Len(before) + 1]_vars
    /\ []((proposed # <<>> /\ dispatched = proposed)
             => IsSuffix(proposed, ToolMsgIds(memory)))

C5_Witness_TwoDispatchedSecondAfterFailure ==
    /\ Len(proposed) = 2
    /\ dispatched = proposed
    /\ ToolMsgIds(memory) = proposed
    /\ "error" \in Tokens(ToolMsgs(memory)[1].content)

\* C6: under the policy "required", a response that proposes no tool
\* invocation makes think() return true, and the act() that follows fails
\* with the 'tool call required' error, which ends the run.
C6_RequiredWithoutCallsFailsInAct ==
    [][(tool_choices = "required"
          /\ \E content \in Contents : BackendResponds(content, <<>>))
          => /\ think_ret' = "True"
             /\ run_outcome' = "ValueError: TOOL_CALL_REQUIRED"
             /\ pc' = "idle"
             /\ dispatched' = <<>>]_vars

C6_Witness_ToolCallRequired ==
    /\ tool_choices = "required"
    /\ think_ret = "True"
    /\ run_outcome = "ValueError: TOOL_CALL_REQUIRED"

\* C7: under the policy "none" no tool is dispatched and no tool message is
\* appended, whatever the backend proposes; think() returns true exactly
\* when the response has content, which it records as an assistant message.
C7_NonePolicyDispatchesNothing ==
    /\ [](tool_choices = "none" => dispatched = <<>> /\ ToolMsgs(memory) = <<>>)
    /\ [][(tool_choices = "none"
             /\ \E content \in Contents, ps \in ProposalLists :
                   BackendResponds(content, ps))
             => \E content \in Contents :
                   /\ think_ret' = (IF content # NoText THEN "True" ELSE "False")
                   /\ content # NoText
                        => \E i \in DOMAIN memory' :
                              memory'[i] = assistant_message(content)]_vars

C7_Reached_DispatchUnderNone ==
    /\ tool_choices = "none"
    /\ dispatched # <<>>
    /\ ToolMsgs(memory) # <<>>

(***************************************************************************)
(* Properties of is_stuck.                                                 *)
(***************************************************************************)
\* the earlier assistant messages of a memory whose content is that of its
\* latest message
EarlierDuplicates(mem) ==
    {i \in 1..(Len(mem) - 1) :
        mem[i].role = "assistant" /\ mem[i].content = mem[Len(mem)].content}

\* C8: is_stuck() returns true exactly when the content of the latest
\* message is non-empty and at least duplicate_threshold (2) earlier
\* assistant messages have the identical content.
C8_StuckIffEnoughEarlierDuplicates ==
    stuck_ret # "none"
        => ((stuck_ret = "True")
              <=> /\ memory # <<>>
                  /\ memory[Len(memory)].content # NoText
                  /\ Cardinality(EarlierDuplicates(memory)) >= duplicate_threshold)

C8_Witness_StuckAtThreshold ==
    /\ stuck_ret = "True"
    /\ memory[Len(memory)].role = "user"
    /\ Cardinality(EarlierDuplicates(memory)) = duplicate_threshold

(***************************************************************************)
(* Properties of the plan store and of the plan text.                      *)
(***************************************************************************)
\* a plan whose three lists have one length
SameLengths(plan) ==
    /\ Len(plan.step_statuses) = Len(plan.steps)
    /\ Len(plan.step_notes) = Len(plan.steps)

\* C9: after any sequence of plan operations (create, update, mark_step,
\* delete through the plan tool, and the direct fallback writes of the
\* Planning Flow), every stored plan has
\* len(step_statuses) = len(step_notes) = len(steps).
C9_PlanListsSameLength ==
    \A id \in PlanIds : plans[id].exists => SameLengths(plans[id])

C9_Reached_StatusesLongerThanSteps ==
    /\ plans[active_plan_id].exists
    /\ Len(plans[active_plan_id].step_statuses) > Len(plans[active_plan_id].steps)

\* direct inspection of the statuses: the lowest index (from 0) whose status
\* is not_started or in_progress, or None
first_active(statuses) ==
    LET open == {i \in DOMAIN statuses : statuses[i] \in get_active_statuses}
    IN  IF open = {} THEN <<>> ELSE <<Min(open) - 1>>

\* C10: for every plan, whatever the statuses and notes of its steps,
\* rendering it to text and scanning the text with the single-agent
\* planner's scanner yields the index that direct inspection of
\* step_statuses yields.
C10_ScanOfTextAgreesWithStatuses ==
    (plans[active_plan_id].exists /\ SameLengths(plans[active_plan_id]))
        => scan_current_step_index(get_plan(Store, active_plan_id))
              = first_active(plans[active_plan_id].step_statuses)

C10_Reached_ActiveStepNotFound ==
    /\ plans[active_plan_id].exists
    /\ plans[active_plan_id].step_statuses = <<"not_started">>
    /\ scan_current_step_index(get_plan(Store, active_plan_id)) = <<>>

\* what a scan for the active step is to do on the stored plans old: select
\* the lowest index whose status is active and mark it in_progress, leaving
\* everything else as it was; select nothing and change nothing when no step
\* is active or no plan is stored
ScanConforms(index, old, new) ==
    LET plan == old[active_plan_id]
        expect == first_active(plan.step_statuses)
    IN  IF ~plan.exists THEN index = <<>> /\ new = old
        ELSE SameLengths(plan) =>
               /\ index = expect
               /\ new = IF expect = <<>> THEN old
                        ELSE [old EXCEPT ![active_plan_id].step_statuses[expect[1] + 1] =
                                            "in_progress"]

\* the scan of the PlanningFlow does so
FlowScanConforms == [][FlowScan => ScanConforms(flow_step_index', plans, plans')]_vars

\* the scan of the PlanningAgent does so
AgentScanConforms == [][AgentScan => ScanConforms(agent_step_index', plans, plans')]_vars

\* C11: scanning a plan for the active step (the flow's
\* _get_current_step_info and the agent's _get_current_step_index) selects
\* the lowest-index step whose status is not_started or in_progress, sets
\* that step's status to in_progress and leaves every other status and all
\* notes unchanged; when no step is active it returns none and changes
\* nothing.
C11_ScanSelectsLowestActiveStep == FlowScanConforms /\ AgentScanConforms

C11_Reached_AgentScanFindsNothing ==
    /\ plans[active_plan_id].steps = <<"A", "B">>
    /\ plans[active_plan_id].step_statuses = <<"completed", "not_started">>
    /\ get_current_step_index(Store).index = <<>>
    /\ get_current_step_info(Store).index = <<1>>

(***************************************************************************)
(* Properties of the reasoning client.                                     *)
(***************************************************************************)
\* the call in flight would push the running total over the budget
OverBudget ==
    ~check_token_limit(total_input_tokens, max_input_tokens, llm_call.input_tokens)

\* C12: a reasoning-client call (ask or ask_tool) whose estimated input
\* tokens would push the cumulative total over the configured budget fails
\* with the budget-exceeded error on its first attempt: no request is sent
\* to the backend and the call is not retried.
C12_BudgetExceededFailsOnFirstAttempt ==
    [][(LLMAttempt /\ attempt_number = 1 /\ OverBudget)
          => /\ llm_pc' = "idle"
             /\ llm_outcome' = TokenLimitExceeded
             /\ llm_sent' = 0
             /\ attempt_number' = 1]_vars

C12_Reached_BudgetFailureRetriedToTheCap ==
    /\ llm_outcome = "RetryError"
    /\ llm_cause = TokenLimitExceeded
    /\ attempt_number = stop_after_attempt
    /\ llm_sent = 0

(***************************************************************************)
(* Properties of the agent's run, continued.                               *)
(***************************************************************************)
\* the message think() leaves when the token budget is exceeded
TokenLimitNotice == assistant_message(<<"token_limit">>)

\* C13: when the reasoning call of think() fails because the token budget
\* is exceeded, the failure does not leave run(): think() appends exactly
\* one explanatory assistant message, sets the state to FINISHED (the loop
\* ends whatever is left of the budget) and returns false; no act() and no
\* further step happen in that run, and run() returns normally.
C13_TokenLimitEndsRunNormally ==
    [][BackendTokenLimit
          => /\ memory' = add_message(memory, TokenLimitNotice)
             /\ think_ret' = "False"
             /\ dispatched' = <<>>
             /\ pc' = "idle"
             /\ run_outcome' = "returned"
             /\ results' = Append(results, current_step)
                              \o (IF current_step >= max_steps THEN <<0>> ELSE <<>>)
             /\ state' = previous_state]_vars

C13_Witness_TokenLimitBeforeBudgetEnds ==
    /\ run_outcome = "returned"
    /\ think_ret = "False"
    /\ memory # <<>>
    /\ memory[Len(memory)] = TokenLimitNotice
    /\ max_steps = MaxStepBudget
    /\ results = <<1>>

\* C14: after any sequence of operations that append to an agent's memory
\* (add_message and the appends made by run(), think() and act()), the
\* memory holds at most max_messages messages.
C14_MemoryWithinCap == Len(memory) <= MaxMessages

C14_Reached_PromptAppendedBeyondCap ==
    /\ pc = "think"
    /\ Len(memory) = MaxMessages + 1
    /\ memory[Len(memory)] = user_message(NEXT_STEP_PROMPT)

\* C15: a run() invoked while another run() of the agent has started and
\* not yet returned fails fast with the state-violation error without
\* executing a step: while a run is in flight the state is never IDLE, and
\* the call changes nothing of the agent and of the run in flight.
C15_RunNotReentrant ==
    /\ [](pc # "idle" => ~run_allowed(state))
    /\ [][(RunCalled /\ pc # "idle")
            => /\ run_error' = "RuntimeError"
               /\ UNCHANGED <<state, current_step, memory, tool_calls, pc,
                              previous_state, act_idx, results, run_outcome,
                              think_ret, dispatched, thinks, issued>>]_vars

C15_Witness_RejectedDuringAct ==
    /\ pc = "act"
    /\ run_outcome = "running"
    /\ run_error = "RuntimeError"

\* the dispatch of this command succeeded on a special tool for which the
\* finish-predicate holds
FinishingDispatch(command, outcome) ==
    /\ is_special_tool(command.name)
    /\ ~DispatchFails(command, outcome)
    /\ should_finish_execution(command.name, outcome.result)

\* C16: during act(), the state is set to FINISHED only after a successful
\* dispatch of a tool whose name is in the special set and for which the
\* finish-predicate holds; the dispatch of a non-special tool, or of a
\* special tool that failed (error result or exception), leaves the state
\* as it was: act() goes on in that state and, after its last dispatch, a
\* running agent with budget left goes on to its next think().
C16_FinishedOnlyBySuccessfulSpecialTool ==
    [][Dispatching =>
         LET command == tool_calls[act_idx]
             finishing == FinishingDispatch(command, last_execute')
         IN  /\ (pc' = "act" /\ state' = "FINISHED") => (state = "FINISHED" \/ finishing)
             /\ (pc' = "act" /\ ~finishing) => state' = state
             /\ (act_idx = Len(tool_calls) /\ ~finishing /\ state = "RUNNING"
                   /\ current_step < max_steps)
                  => pc' = "think" /\ state' = "RUNNING"]_vars

C16_Reached_FinishedByFailedSpecialTool ==
    /\ pc = "act"
    /\ act_idx = 2
    /\ state = "FINISHED"
    /\ is_special_tool(tool_calls[1].name)
    /\ last_execute.result.error # NoText
    /\ ToolMsgs(memory)[Len(ToolMsgs(memory))].content
          = <<"result", "bash", "error", "tool_error">>

\* C17: a successful dispatch of a terminating tool ends the current run:
\* once it has set the state to FINISHED, no further tool invocation is
\* dispatched (those proposed after it in the same think() included) and no
\* further think() happens in that run().
C17_NothingRunsAfterTerminatingTool ==
    /\ [][Dispatching => state # "FINISHED"]_vars
    /\ [](pc = "think" => state # "FINISHED")

C17_Reached_DispatchAfterTerminate ==
    /\ Len(tool_calls) = 2
    /\ tool_calls[1] = ToolCall(tool_calls[1].id, "terminate", "{status:success}")
    /\ dispatched = <<tool_calls[1].id, tool_calls[2].id>>
    /\ Len(ToolMsgs(memory)) >= 2
    /\ ToolMsgs(memory)[Len(ToolMsgs(memory))].content = <<"result", "bash", "out">>
    /\ ToolMsgs(memory)[Len(ToolMsgs(memory)) - 1].content
          = <<"result", "terminate", "terminated">>

(***************************************************************************)
(* Properties of PlanningFlow.execute.                                     *)
(***************************************************************************)
\* C18: if the executor ends a plan step's run by executing a terminating
\* tool (it signals FINISHED), the flow leaves its loop after that step and
\* runs no further plan step, even when active steps remain.
C18_FlowStopsAfterTerminatingTool ==
    [][(ExecuteStepEnds /\ TerminatedByTool) => flow_pc' = "done"]_vars

C18_Reached_NextStepRunAfterTerminate ==
    /\ Len(flow_result) = 1
    /\ flow_result[1].terminated
    /\ flow_result[1].index = 0
    /\ flow_pc = "step"
    /\ flow_step_index = <<1>>
    /\ pc = "think"

\* the status of step i (from 0) of the flow's plan in the stored plans ps
StatusOf(ps, i) ==
    IF ps[active_plan_id].exists /\ i + 1 \in DOMAIN ps[active_plan_id].step_statuses
    THEN ps[active_plan_id].step_statuses[i + 1]
    ELSE "none"

\* C19: each selected step is marked in_progress before its executor's
\* run() starts and stays in_progress while that run is active; a step
\* becomes completed only when the run() made for it has returned without
\* an exception, so none becomes completed without an executor run.
C19_StepInProgressDuringRunCompletedAfter ==
    /\ [](flow_pc \in {"start", "step"}
            => flow_step_index # <<>> /\ StatusOf(plans, flow_step_index[1]) = "in_progress")
    /\ [][\A i \in 0..MaxPlanSteps :
            (StatusOf(plans', i) = "completed" /\ StatusOf(plans, i) # "completed")
               => /\ ExecuteStepEnds
                  /\ run_outcome = "returned"
                  /\ flow_step_index = <<i>>]_vars

C19_Witness_SecondStepRunsAfterFirstCompleted ==
    /\ flow_pc = "step"
    /\ pc = "act"
    /\ flow_step_index = <<1>>
    /\ flow_result = <<StepResult(0, "returned", FALSE)>>
    /\ plans[active_plan_id].step_statuses = <<"completed", "in_progress">>

\* C20: if the executor's run() raises during plan step i, execute() does
\* not abort: the error becomes part of the accumulated result, step i is
\* not marked completed (the plan stays as it is), and the loop goes on to
\* its next iteration unless the executor's state is FINISHED.
C20_RaisedRunKeepsFlowGoing ==
    [][(ExecuteStepEnds /\ run_outcome # "returned")
          => /\ plans' = plans
             /\ StatusOf(plans', flow_step_index[1]) = "in_progress"
             /\ flow_result' = Append(flow_result,
                                      StepResult(flow_step_index[1], "error", FALSE))
             /\ flow_pc' = (IF state = "FINISHED" THEN "done" ELSE "scan")]_vars

C20_Witness_StepRunAgainAfterError ==
    /\ flow_result = <<StepResult(0, "error", FALSE)>>
    /\ run_outcome = "running"
    /\ flow_pc = "step"
    /\ flow_step_index = <<0>>

\* C21: when mark_step fails while the flow marks the current step
\* in_progress or completed, the flow writes the status into the stored
\* plan itself: after either marking the current step of a stored plan has
\* the intended status, whether or not the plan tool raised.
C21_FlowMarkingSurvivesToolFailure ==
    /\ [][(FlowScan /\ flow_step_index' # <<>>)
            => StatusOf(plans', flow_step_index'[1]) = "in_progress"]_vars
    /\ [][(FlowStepReturns /\ has_plan(Store, active_plan_id))
            => StatusOf(plans', flow_step_index[1]) = "completed"]_vars

C21_Witness_CompletedWrittenAfterToolFailure ==
    /\ flow_pc = "scan"
    /\ flow_step_index = <<1>>
    /\ plans[active_plan_id].exists
    /\ Len(plans[active_plan_id].steps) = 1
    /\ mark_step(Store, active_plan_id, flow_step_index, "completed", "").raised
    /\ StatusOf(plans, 1) = "completed"


\* the steps of the stored plan whose status is not_started or in_progress
OpenSteps(ps) ==
    {i \in 0..(Len(ps[active_plan_id].steps) - 1) :
        StatusOf(ps, i) \in {"not_started", "in_progress", "none"}}

\* C22: execute() goes to finalize only when no step of the plan is
\* not_started or in_progress; it then adds the final text exactly once and
\* stops, and nothing of the flow or of the executor changes afterwards; a
\* step the scan selects was not_started or in_progress, so blocked and
\* completed steps are never run.
C22_FinalizesOnceWhenNoActiveStep ==
    /\ [][(flow_pc # "finalize" /\ flow_pc' = "finalize") => OpenSteps(plans') = {}]_vars
    /\ [][(ExecuteScan /\ flow_step_index' # <<>>)
            => flow_step_index'[1] \in OpenSteps(plans)]_vars
    /\ [][(flow_pc \in {"finalize", "summary"})
            => (/\ flow_pc' \in {"finalize", "summary", "done"}
                /\ plans' = plans
                /\ (flow_pc' = "done"
                      => flow_result' = Append(flow_result, FlowText("finalized"))))]_vars
    /\ [][(flow_pc = "done") => UNCHANGED <<planVars, agentVars>>]_vars
    /\ [](Cardinality({i \in DOMAIN flow_result :
                          flow_result[i].outcome = "finalized"}) <= 1)

C22_Witness_FinalizedWithBlockedStepNeverRun ==
    /\ flow_pc = "done"
    /\ StatusOf(plans, 0) = "blocked"
    /\ StatusOf(plans, 1) = "completed"
    /\ Len(flow_result) = 2
    /\ flow_result[1] = StepResult(1, "returned", FALSE)
    /\ flow_result[2] = FlowText("finalized")


\* execute() with an input text has just left _create_initial_plan, which
\* returned without raising
CreationReturned ==
    /\ \E calls \in PlanResponses : ExecuteCreatesPlan(calls)
    /\ ~plan_call_raised'

\* C24: whenever the flow's initial plan creation returns normally a plan is
\* stored under the active plan id, the backend's plan or else the default
\* plan of three steps, all not_started.
C24_CreationReturnedLeavesPlanStored ==
    [][CreationReturned
        => /\ plans'[active_plan_id].exists
           /\ \/ plans'[active_plan_id].title = "T1"
              \/ /\ plans'[active_plan_id].steps = DefaultSteps
                 /\ plans'[active_plan_id].step_statuses
                        = <<"not_started", "not_started", "not_started">>
              \/ plans[active_plan_id].exists]_vars

\* the planning call of the response was one that creates nothing: the
\* creation returned, no plan is stored, and execute() reported the failure
C24_Reached_CreationReturnedWithoutPlan ==
    /\ flow_pc = "done"
    /\ ~plan_call_raised
    /\ ~plans[active_plan_id].exists
    /\ flow_result = <<FlowText("create_failed")>>


(***************************************************************************)
(* Properties of the executor selection.                                   *)
(***************************************************************************)
\* the tags of a step text, in lower case: every run of uppercase
\* characters that stands between two brackets
Tags(text) ==
    {[k \in 1..(j - i - 1) |-> lower(text[i + k])] :
        <<i, j>> \in {<<i, j>> \in (1..Len(text)) \X (1..Len(text)) :
                        /\ j > i + 1
                        /\ text[i] = "["
                        /\ text[j] = "]"
                        /\ \A k \in (i + 1)..(j - 1) : text[k] \in Uppercase}}

\* the first executor key that names a registered agent; optional
FirstRegistered(keys, ags) ==
    LET hits == {i \in DOMAIN keys : keys[i] \in Range(ags)}
    IN  IF hits = {} THEN <<>>
        ELSE <<keys[CHOOSE i \in hits : \A h \in hits : i <= h]>>

\* C23: for a step whose text holds a bracketed uppercase tag the agent
\* registered under the tag's key in lower case is picked when there is
\* one; otherwise, and for a step without a tag, the first executor key that
\* names a registered agent; otherwise the primary agent.
C23_ExecutorByTagThenOrderThenPrimary ==
    executor # <<>> =>
        LET registered == Tags(step_text) \cap Range(agents)
            first == FirstRegistered(executor_keys, agents)
        IN  /\ \A tag \in registered : executor[1] = tag
            /\ (registered = {} /\ first # <<>>) => executor = first
            /\ (registered = {} /\ first = <<>>) => executor[1] = primary_agent_key

C23_Witness_TaggedStepGoesToItsAgent ==
    /\ step_text = <<"b", "[", "A", "]">>
    /\ agents = <<<<"b">>, <<"a">>>>
    /\ primary_agent_key = <<"b">>
    /\ executor_keys = <<<<"b">>>>
    /\ executor = <<<<"a">>>>


(***************************************************************************)
(* Properties of the reasoning client, continued.                          *)
(***************************************************************************)
\* the backend answers the request in flight with a failure
AttemptFails ==
    \E response \in Responses, n \in TokenCounts :
        /\ LLMBackendAnswers(response, n)
        /\ (response = OpenAIError \/ ~usable(llm_call.kind, response))

\* the backend answers the request in flight with a result
AttemptSucceeds ==
    \E response \in Responses, n \in TokenCounts :
        /\ LLMBackendAnswers(response, n)
        /\ response # OpenAIError
        /\ usable(llm_call.kind, response)

\* C25: a call is retried on backend errors up to the cap of 6 attempts and
\* always terminates: an attempt that succeeds returns the result and no
\* further attempt is made; a failed attempt below the cap is followed by
\* another; when the attempt at the cap fails a fatal error is surfaced and
\* there is no 7th attempt.
C25_RetriedUpToTheCapAndTerminates ==
    /\ [](attempt_number <= stop_after_attempt /\ llm_sent <= attempt_number)
    /\ [][AttemptSucceeds
            => /\ llm_pc' = "idle"
               /\ llm_outcome' = "returned"
               /\ attempt_number' = attempt_number]_vars
    /\ [][(AttemptFails /\ attempt_number < stop_after_attempt)
            => /\ llm_pc' = "attempt"
               /\ attempt_number' = attempt_number + 1]_vars
    /\ [][(AttemptFails /\ attempt_number = stop_after_attempt)
            => /\ llm_pc' = "idle"
               /\ llm_outcome' = "RetryError"
               /\ attempt_number' = attempt_number]_vars
    /\ [][(llm_pc = "idle") => llm_pc' \in {"idle", "attempt"}]_vars
    /\ (llm_pc # "idle") ~> (llm_pc = "idle")

C25_Witness_SixthAttemptFailsOnBackendError ==
    /\ llm_pc = "idle"
    /\ llm_outcome = "RetryError"
    /\ llm_cause = OpenAIError
    /\ attempt_number = stop_after_attempt
    /\ llm_sent = stop_after_attempt


\* the backend answers the request in flight with a response the call
\* cannot use: no choices, or no content
ResponseUnusable ==
    \E response \in {"empty_content", "no_choices"}, n \in TokenCounts :
        /\ LLMBackendAnswers(response, n)
        /\ ~usable(llm_call.kind, response)

\* C26: a response without usable content fails the call as a hard failure:
\* the error is surfaced to the caller and the call is not retried.
C26_UnusableResponseIsNotRetried ==
    [][ResponseUnusable
          => /\ llm_pc' = "idle"
             /\ llm_outcome' = ValueError
             /\ attempt_number' = attempt_number]_vars

C26_Reached_UnusableResponseRetriedToTheCap ==
    /\ llm_pc = "idle"
    /\ llm_outcome = "RetryError"
    /\ llm_cause = ValueError
    /\ attempt_number = stop_after_attempt
    /\ llm_sent = stop_after_attempt


\* what the call in flight, or the latest call, has added to the running
\* total
CountedByCall == total_input_tokens - llm_call.total_before

\* C29: the running total of input tokens changes only when a call
\* succeeds: a call that returned has added its input-token count (the
\* estimate for a streaming call, the backend's count otherwise) exactly
\* once, and failed attempts have added nothing, whether an attempt is due
\* again or the call has failed.
C29_TotalChangesOnlyOnSuccess ==
    /\ (llm_pc = "attempt") => CountedByCall = 0
    /\ (llm_pc = "idle" /\ llm_outcome \notin {"none", "returned"}) => CountedByCall = 0
    /\ (llm_pc = "idle" /\ llm_outcome = "returned")
          => IF llm_call.kind = "ask_stream"
             THEN CountedByCall = llm_call.input_tokens
             ELSE CountedByCall \in TokenCounts

C29_Reached_FailedStreamingCallCounted ==
    /\ llm_pc = "idle"
    /\ llm_call.kind = "ask_stream"
    /\ llm_outcome = "RetryError"
    /\ llm_cause = OpenAIError
    /\ CountedByCall = stop_after_attempt * llm_call.input_tokens


\* C27: with several callers on one client the budget check and the update
\* of the counter are atomic: under every interleaving the input tokens
\* counted never exceed the configured budget.
C27_SharedTotalWithinBudget ==
    max_input_tokens # <<>> => total_input_tokens <= max_input_tokens[1]

C27_Reached_TwoCallersPassTheCheckTogether ==
    /\ \A i \in Callers :
          /\ callers[i].llm_outcome = "returned"
          /\ callers[i].llm_call.kind = "ask"
          /\ callers[i].attempt_number = 1
          /\ callers[i].llm_call.total_before = 0
    /\ total_input_tokens > max_input_tokens[1]


(***************************************************************************)
(* Properties of the session tools.                                        *)
(***************************************************************************)
\* the dispatches that are operating on the session of a tool
Operating(tool) == {d \in Dispatches : InSession(d, tool)}

\* C28: the dispatches to a tool instance that wraps a session are
\* serialized by a guard of the instance: at most one dispatch operates on
\* the session of the browser tool, of the bash tool and of the terminal
\* tool at a time.
C28_OneDispatchInSessionAtATime ==
    \A tool \in {"browser", "bash", "terminal"} : Cardinality(Operating(tool)) <= 1

C28_Reached_TwoCommandsInOneShell ==
    /\ dispatches["d1"] = [op |-> "bash", pc |-> "inside"]
    /\ dispatches["d2"] = [op |-> "bash", pc |-> "inside"]
    /\ bash_session = <<"d1">>


(***************************************************************************)
(* Properties of the PlanningAgent's tracking.                             *)
(***************************************************************************)
\* the record the tracker holds for a tool call, as a set
RecordsOf(tracker, call) == {rec \in tracker : rec.id = call.id}

\* C30: every non-planning, non-special tool call a think() proposes while
\* a step of the plan is active gets a record keyed by its id that holds
\* the index of that step and status pending; after the act() that follows
\* the record is completed and the step at its index is marked completed;
\* planning and special tool calls never get a record.
C30_EveryTrackedCallHasItsRecord ==
    /\ [][(planner_thinks' = planner_thinks + 1 /\ OpenSteps(plans) # {})
            => \A i \in DOMAIN planner_calls' :
                  tracked_tool(planner_calls'[i].name)
                     => RecordsOf(step_execution_tracker', planner_calls'[i])
                          = {StepExecutionRecord(planner_calls'[i].id,
                                                 Min(OpenSteps(plans)),
                                                 planner_calls'[i].name, "pending")}]_vars
    /\ [][PlannerActs
            => \A rec \in step_execution_tracker :
                  rec.status = "pending"
                     => /\ [rec EXCEPT !.status = "completed"] \in step_execution_tracker'
                        /\ StatusOf(plans', rec.step_index) = "completed"]_vars
    /\ [](\A rec \in step_execution_tracker : tracked_tool(rec.tool_name))

C30_Reached_ToolCallRunWithoutRecord ==
    /\ planner_pc = "think"
    /\ planner_thinks = 1
    /\ planner_calls = <<ToolCall(1, "bash", "{}")>>
    /\ plans[active_plan_id].step_statuses = <<"not_started", "not_started">>
    /\ step_execution_tracker = {}

(***************************************************************************)
(* Properties of the proposed tool invocations.                            *)
(***************************************************************************)
\* the tool-call ids the assistant messages of a memory record
RecordedIds(mem) ==
    {id \in 1..MaxProposed :
        \E i \in DOMAIN mem : /\ mem[i].role = "assistant"
                              /\ \E k \in DOMAIN mem[i].tool_calls : mem[i].tool_calls[k].id = id}

\* how many tool messages of a memory answer the tool call id
Answers(mem, id) ==
    Cardinality({i \in DOMAIN mem : mem[i].role = "tool" /\ mem[i].tool_call_id = id})

\* control is with the run loop or with the caller: no act() is in flight
BetweenActs == pc \in {"idle", "think"}

\* C31: every tool invocation the backend proposed and an assistant message
\* records (in a think() or in the planner's creation of its initial plan)
\* is dispatched exactly once: whenever no act() is in flight, each recorded
\* call has exactly one tool message answering it, never two and never none.
C31_RecordedCallDispatchedExactlyOnce ==
    BetweenActs => \A id \in RecordedIds(memory) : Answers(memory, id) = 1

\* the initial plan creation recorded two calls and answered the first alone
C31_Reached_RecordedCallNeverDispatched ==
    /\ BetweenActs
    /\ \E i \in DOMAIN memory :
          /\ memory[i].role = "assistant"
          /\ Len(memory[i].tool_calls) = 2
          /\ memory[i].tool_calls[1].name = "planning"
          /\ memory[i].tool_calls[2].name = "planning"
          /\ Answers(memory, memory[i].tool_calls[1].id) = 1
          /\ Answers(memory, memory[i].tool_calls[2].id) = 0

(***************************************************************************)
(* Properties of the agent's state around and between its runs.            *)
(***************************************************************************)
\* a step in which an exception of a running step leaves run()
RunRaises == pc # "idle" /\ pc' = "idle" /\ run_outcome' # "returned"

\* no run is in flight and one has ended, by returning or by raising
RunEnded == pc = "idle" /\ run_outcome \notin {"none", "running"}

\* C32: an unhandled exception in a step of run() takes the state from
\* RUNNING through ERROR back to the state held before the run, IDLE, by the
\* time the exception reaches the caller; once a run has returned or raised,
\* the state is neither RUNNING nor ERROR and run() is accepted again.
C32_FailedRunRevertsToIdle ==
    /\ [][RunRaises => /\ state = "RUNNING"
                       /\ previous_state = "IDLE"
                       /\ state' = state_context_exit(Env, TRUE).state
                       /\ state' = "IDLE"]_vars
    /\ [](RunEnded => state \notin {"RUNNING", "ERROR"} /\ run_allowed(state))

\* the second step of a run raised, and the agent is IDLE again
C32_Witness_RaisedInSecondStepBackToIdle ==
    /\ RunEnded
    /\ run_outcome = "ValueError: TOOL_CALL_REQUIRED"
    /\ current_step = 2
    /\ state = "IDLE"

\* a step in which the run in flight returns
RunReturns == pc # "idle" /\ pc' = "idle" /\ run_outcome' = "returned"

\* the termination notice is among the results of run()
Noticed(res) == \E i \in DOMAIN res : res[i] = 0

\* C33: run() appends the termination notice and resets current_step to 0
\* only when its loop ended on the exhausted step budget, not when it ended
\* on the state FINISHED: a run whose step k (any k in 1..max_steps) executed
\* a terminating tool returns without the notice and with current_step = k.
C33_NoNoticeAfterTerminatingTool ==
    [][(RunReturns /\ TerminatedByTool')
          => /\ ~Noticed(results')
             /\ current_step' = current_step
             /\ current_step' \in 1..max_steps]_vars

\* the terminating tool ran in the last step of the budget, and the run
\* returned with the notice and the counter reset
C33_Reached_NoticeAfterTerminateInLastStep ==
    /\ run_outcome = "returned"
    /\ TerminatedByTool
    /\ max_steps = 2
    /\ results = <<1, 2, 0>>
    /\ current_step = 0

\* the terminating tool ran before the last step: no notice, no reset
C33_Reached_TerminateBeforeLastStep ==
    /\ run_outcome = "returned"
    /\ TerminatedByTool
    /\ max_steps = 2
    /\ results = <<1>>
    /\ current_step = 1

(***************************************************************************)
(* Properties of the remedy for a stuck agent.                             *)
(***************************************************************************)
\* a step of the run in flight ends: run() appends its result
StepEnds == Len(results') > Len(results)

\* the memory is_stuck() looked at in the step that ends: what the next
\* think() has appended since is left out
MemoryChecked ==
    IF pc' = "think" /\ next_step_prompt' # NoText
    THEN SubSeq(memory', 1, Len(memory') - 1)
    ELSE memory'

\* a step ends and its stuck detection triggers
StuckDetected == StepEnds /\ is_stuck(MemoryChecked)

\* C34: every stuck detection after a step prepends the fixed corrective
\* instruction to the next-step prompt, once per detection and without
\* deduplication, and nothing else changes the prompt: after k detections
\* the prompt is k copies of the instruction followed by the original.
C34_EveryDetectionPrependsTheInstruction ==
    [][/\ StuckDetected => next_step_prompt' = <<stuck_prompt>> \o next_step_prompt
       /\ ~StuckDetected => next_step_prompt' = next_step_prompt]_vars

\* a detection on an agent without a next-step prompt: the step ended on a
\* third identical answer and the prompt is still empty
C34_Reached_DetectionWithoutInstruction ==
    /\ next_step_prompt = NoText
    /\ run_outcome = "returned"
    /\ results = <<1, 0>>
    /\ is_stuck(memory)

(***************************************************************************)
(* Properties of the planner's marking of its plan.                        *)
(***************************************************************************)
\* the tool registry of a PlanningAgent: PlanningTool and Terminate
planner_tool_map == {"planning", "terminate"}

\* the dispatch of a tool call of the planner fails: the tool is unknown or
\* its arguments are no JSON object
PlannerDispatchFails(call) ==
    \/ call.name \notin planner_tool_map
    \/ json_loads(call.arguments).error
    \/ ~json_loads(call.arguments).dict

\* the steps (from 0) an act() of the planner marks completed
NewlyCompleted ==
    {i \in 0..(MaxPlanSteps - 1) :
        StatusOf(plans, i) # "completed" /\ StatusOf(plans', i) = "completed"}

\* C35: the planner marks a step of its plan completed only when the tool
\* call associated with the step executed successfully; a call whose
\* dispatch failed (unknown tool, malformed arguments, an error of the tool)
\* never gets its step marked completed.
C35_CompletedOnlyAfterSuccessfulCall ==
    [][(PlannerActs /\ NewlyCompleted # {}) => ~PlannerDispatchFails(planner_calls[1])]_vars

\* a call of a tool the planner does not have was tracked, and act() marked
\* its step completed
C35_Reached_StepCompletedAfterUnknownTool ==
    /\ planner_pc = "think"
    /\ planner_calls # <<>>
    /\ planner_calls[1].name = "bash"
    /\ StepExecutionRecord(planner_calls[1].id, 0, "bash", "completed")
          \in step_execution_tracker
    /\ StatusOf(plans, 0) = "completed"
    /\ plans[active_plan_id].step_notes[1] = HeaderNote


(***************************************************************************)
(* Properties of the number of step executions of a flow.                  *)
(***************************************************************************)
\* the entries of the result of execute() that stand for a step execution
StepExecutions == {i \in DOMAIN flow_result : flow_result[i].index >= 0}

\* C36: every iteration of the loop of execute() moves the selected step
\* out of the active statuses or ends the loop: no step index is executed
\* twice, and there are at most as many step executions as the plan has
\* steps.
C36_NoStepExecutedTwice ==
    /\ \A i, j \in StepExecutions :
          i # j => flow_result[i].index # flow_result[j].index
    /\ Cardinality(StepExecutions) <= Len(plans[active_plan_id].steps)

\* step 0 was executed twice: the executor's first run raised and left the
\* step in progress, the second run returned and the step was marked
\* completed
C36_Reached_SameStepExecutedTwice ==
    /\ flow_pc = "scan"
    /\ Len(flow_result) = 2
    /\ flow_result[1] = StepResult(0, "error", FALSE)
    /\ flow_result[2].index = 0
    /\ flow_result[2].outcome = "returned"
    /\ StatusOf(plans, 0) = "completed"


(***************************************************************************)
(* Properties of the step counter of an agent at rest.                     *)
(***************************************************************************)
\* the agent is IDLE and no run is in progress
IdleAtRest == pc = "idle" /\ state = "IDLE"

\* C37: whenever an agent is IDLE with no run in progress, current_step is
\* 0, so every run() starts counting at step 1 with the full budget of
\* max_steps, however the earlier runs on the agent ended.
C37_IdleAgentHasCounterAtZero == IdleAtRest => current_step = 0

\* a second run on an agent whose first run ended in its first step by the
\* terminating tool: its first step is counted as step 2
C37_Reached_SecondRunStartsAtStepTwo ==
    /\ pc = "think"
    /\ state = "RUNNING"
    /\ results = <<>>
    /\ current_step = 2
    /\ \E i \in DOMAIN memory : memory[i].role = "tool" /\ memory[i].name = "terminate"

\* a run that raised in its first step left the counter at 1 on the IDLE
\* agent
C37_Reached_CounterKeptAfterRaise ==
    /\ IdleAtRest
    /\ run_outcome \notin {"none", "running", "returned"}
    /\ current_step = 1


(***************************************************************************)
(* Properties of a run() call that fails its precondition.                 *)
(***************************************************************************)
\* a run() call on an agent that is not IDLE ends with the RuntimeError of
\* the precondition
RunFailsPrecondition == ~run_allowed(state) /\ run_error' = "RuntimeError"

\* the messages of a memory that ask the backend for a plan
PlanRequests(mem) ==
    {i \in DOMAIN mem : /\ mem[i].role = "user"
                        /\ mem[i].content # NoText
                        /\ mem[i].content[1] = "create_plan"}

\* C38: a run(request) that fails the IDLE precondition has no side effect:
\* memory, plan store and current_step are unchanged and no call of the
\* reasoning backend is made, for the planning agent as for the base agent.
C38_RejectedRunHasNoSideEffect ==
    [][RunFailsPrecondition
          => UNCHANGED <<memory, plans, current_plan_id, current_step, thinks>>]_vars

\* run(request) was called on a planner whose run was in flight: it was
\* rejected, after a second request for a plan went to the backend and into
\* memory
C38_Reached_RejectedRunAskedForPlan ==
    /\ run_error = "RuntimeError"
    /\ state = "RUNNING"
    /\ thinks = 2
    /\ Cardinality(PlanRequests(memory)) = 2


(***************************************************************************)
(* Properties of the plan store under a command that reports an error.     *)
(***************************************************************************)
\* one command of the planning tool that changes plans or the pointer
PlanCommand ==
    \/ \E a \in CreateArgs : PlanCreate(a[1], a[2], a[3])
    \/ \E a \in UpdateArgs : PlanUpdate(a[1], a[2], a[3])
    \/ \E plan_id \in PlanIdArgs : PlanSetActive(plan_id)
    \/ \E a \in MarkStepArgs : PlanMarkStep(a[1], a[2], a[3], a[4])
    \/ \E plan_id \in PlanIdArgs : PlanDelete(plan_id)

\* C39: a command of the planning tool that reports an error (create with
\* an existing id or without title or steps, update or delete of an unknown
\* id, update with invalid steps, mark_step with an index out of range or
\* an invalid status) leaves every plan and the active-plan pointer as they
\* were.
C39_FailedCommandLeavesStoreUnchanged ==
    [][(PlanCommand /\ plan_call_raised') => UNCHANGED <<plans, current_plan_id>>]_vars

\* the latest command raised, and the plan created with the title T1 and
\* the single step A carries the title T2 that only update commands give
C39_Reached_TitleOfRejectedUpdateStored ==
    /\ plan_call_raised
    /\ plans["p1"].exists
    /\ plans["p1"].title = "T2"
    /\ plans["p1"].steps = <<"A">>
    /\ plans["p1"].step_statuses = <<"not_started">>


\* an update command with a title and with steps that are no list of strings
TitledUpdateWithInvalidSteps ==
    \E a \in UpdateArgs : a[2] # "" /\ ~a[3].valid /\ PlanUpdate(a[1], a[2], a[3])

\* every other command that reports an error leaves the store as it was
OtherFailedCommandsLeaveStoreUnchanged ==
    [][(PlanCommand /\ plan_call_raised' /\ ~TitledUpdateWithInvalidSteps)
          => UNCHANGED <<plans, current_plan_id>>]_vars


(***************************************************************************)
(* Properties of the tool messages of a memory.                            *)
(***************************************************************************)
\* the message at position i of mem is a tool message with its id and its
\* name, and an assistant message before it proposed the call of that id
ToolMessageAnswersCall(mem, i) ==
    /\ mem[i].tool_call_id # 0
    /\ mem[i].name # ""
    /\ \E j \in 1..(i - 1) :
          /\ mem[j].role = "assistant"
          /\ \E k \in DOMAIN mem[j].tool_calls :
                mem[j].tool_calls[k].id = mem[i].tool_call_id

\* the tool messages of mem that answer no call recorded before them
OrphanToolMessages(mem) ==
    {i \in DOMAIN mem : mem[i].role = "tool" /\ ~ToolMessageAnswersCall(mem, i)}

\* C40: whenever control is back in the run loop (between steps), every
\* tool message in memory carries a tool_call_id and a name and is preceded
\* in memory by an assistant message whose tool_calls holds that id, under
\* every tool-choice policy and also when the memory cap evicts messages.
C40_ToolMessageFollowsItsCall == BetweenActs => OrphanToolMessages(memory) = {}

\* policy auto: the cap evicted the assistant message of a step and kept
\* the tool message that answers it as the oldest message
C40_Reached_ToolMessageOutlivesItsCall ==
    /\ BetweenActs
    /\ tool_choices = "auto"
    /\ Len(memory) = MaxMessages
    /\ memory[1].role = "tool"
    /\ memory[1].tool_call_id # 0
    /\ memory[1].name # ""

\* policy none: a call was dispatched whose assistant message records no
\* tool calls, with nothing evicted
C40_Reached_AnswerWithoutRecordedCall ==
    /\ BetweenActs
    /\ tool_choices = "none"
    /\ Len(memory) < MaxMessages
    /\ OrphanToolMessages(memory) # {}

=============================================================================
